---- MODULE Spec2Model ----
(***************************************************************************)
(* A model of Sloth's ShaderGenerator (src/sloth.py): map association,     *)
(* option overlay, keyword assembly, light variant expansion and emission. *)
(*                                                                         *)
(* Python strings are sequences of one-character strings, so that prefix   *)
(* search, suffix tests, splitting and sorting are computed, not assumed.  *)
(* Python dicts with dynamic keys are ordered dicts: sequences of          *)
(* [k |-> key, v |-> value] entries in insertion order.  Dicts with fixed  *)
(* field names are functions over strings.  Mutable dicts that the code    *)
(* shares or deep-copies (option bundles, metadata bags) live in a heap    *)
(* and are held by reference.                                              *)
(***************************************************************************)
EXTENDS Integers, Sequences, FiniteSets, TLC

VARIABLES
    sets,       \* self.sets: set name -> shader name -> shader record
    heap,       \* the mutable dicts held by reference: option bundles, metadata
    header,     \* self.header, as a sequence of lines
    verbosity,  \* self.verbosity
    stderr,     \* what verbose(), debug() and error() printed
    call,       \* the last call made on the generator, with its arguments
    ret,        \* the value the last call returned
    exc,        \* the exception that left the last call, or NoExc
    ngen        \* how many times generateSet was called

vars == <<sets, heap, header, verbosity, stderr, call, ret, exc, ngen>>

-----------------------------------------------------------------------------
(* Strings *)

\* The characters in use, in code point order.
Chars == <<" ", "-", ".", "/",
           "0", "1", "2", "3", "4", "5", "6", "7", "8", "9", ":",
           "A", "D", "P", "S", "_",
           "a", "b", "c", "d", "e", "f", "g", "h", "i", "k", "l", "m", "n", "o",
           "p", "r", "s", "t", "u", "v", "w", "x", "y">>

CharOrd(c) == CHOOSE i \in DOMAIN Chars : Chars[i] = c

Digits == <<"0", "1", "2", "3", "4", "5", "6", "7", "8", "9">>

IsDigit(c) == \E i \in DOMAIN Digits : Digits[i] = c

DigitVal(c) == (CHOOSE i \in DOMAIN Digits : Digits[i] = c) - 1

\* str < str
RECURSIVE StrLess(_, _)
StrLess(s, t) ==
    IF t = <<>> THEN FALSE
    ELSE IF s = <<>> THEN TRUE
    ELSE IF Head(s) = Head(t) THEN StrLess(Tail(s), Tail(t))
    ELSE CharOrd(Head(s)) < CharOrd(Head(t))

\* str.endswith(suffix)
EndsWith(s, suffix) ==
    /\ Len(suffix) <= Len(s)
    /\ SubSeq(s, Len(s) - Len(suffix) + 1, Len(s)) = suffix

\* str.rsplit(sep, 1)[0], for a non-empty sep
RSplitHead(s, sep) ==
    LET at == {i \in 1..Len(s) : i + Len(sep) - 1 <= Len(s)
                                 /\ SubSeq(s, i, i + Len(sep) - 1) = sep}
        last == CHOOSE i \in at : \A j \in at : j <= i
    IN  IF sep = <<>> \/ at = {} THEN s ELSE SubSeq(s, 1, last - 1)

\* str.split(c) for a one-character separator: every field, empty ones too
RECURSIVE SplitOn(_, _)
SplitOn(s, c) ==
    LET at == {i \in 1..Len(s) : s[i] = c}
        first == CHOOSE i \in at : \A j \in at : i <= j
    IN  IF at = {} THEN <<s>>
        ELSE <<SubSeq(s, 1, first - 1)>> \o SplitOn(SubSeq(s, first + 1, Len(s)), c)

\* str.split(): the fields between runs of blanks
SplitBlank(s) == SelectSeq(SplitOn(s, " "), LAMBDA f : f # <<>>)

\* the elements of a sequence, as a set
Range(s) == {s[i] : i \in DOMAIN s}

\* str(n) for n >= 0
RECURSIVE IntToStr(_)
IntToStr(n) ==
    IF n < 10 THEN <<Digits[n + 1]>>
    ELSE IntToStr(n \div 10) \o <<Digits[(n % 10) + 1]>>

\* sorted(names): ascending, without duplicates (the keys of a dict)
RECURSIVE SortedStrs(_)
SortedStrs(S) ==
    IF S = {} THEN <<>>
    ELSE LET least == CHOOSE s \in S : \A t \in S : t = s \/ StrLess(s, t)
         IN  <<least>> \o SortedStrs(S \ {least})

-----------------------------------------------------------------------------
(* Ordered dicts *)

DictKeys(d) == {d[i].k : i \in DOMAIN d}

DictHas(d, key) == \E i \in DOMAIN d : d[i].k = key

DictIdx(d, key) == CHOOSE i \in DOMAIN d : d[i].k = key

DictGet(d, key) == d[DictIdx(d, key)].v

\* d[key] = value
DictSet(d, key, value) ==
    IF DictHas(d, key) THEN [d EXCEPT ![DictIdx(d, key)].v = value]
    ELSE Append(d, [k |-> key, v |-> value])

\* d.pop(key), for a key of d
DictPop(d, key) ==
    LET i == DictIdx(d, key)
    IN  SubSeq(d, 1, i - 1) \o SubSeq(d, i + 1, Len(d))

\* d.update(e)
RECURSIVE DictUpdate(_, _)
DictUpdate(d, e) ==
    IF e = <<>> THEN d
    ELSE DictUpdate(DictSet(d, Head(e).k, Head(e).v), Tail(e))

-----------------------------------------------------------------------------
(* Values *)

\* None where a str is expected; both are falsy, and no map name is empty
None == <<>>

NoExc == "none"

\* A configparser value: None for a key without "=", else the stripped text
NoValue == [none |-> TRUE, s |-> <<>>]

Value(text) == [none |-> FALSE, s |-> text]

\* A message for stderr: error() always prints, verbose() from verbosity 1,
\* debug() from verbosity 2
ErrorMsg(text) == [lvl |-> 0, msg |-> text]

VerboseMsg(text) == [lvl |-> 1, msg |-> text]

DebugMsg(text) == [lvl |-> 2, msg |-> text]

Printed(log, v) == SelectSeq(log, LAMBDA m : m.lvl <= v)

-----------------------------------------------------------------------------
(* Class constants *)

MapTypes == <<"diffuse", "normal", "normalheight", "height",
              "physical", "specular", "addition", "preview">>

defaultSuffixes ==
    [diffuse      |-> <<"_", "d">>,
     normal       |-> <<"_", "n">>,
     normalheight |-> <<"_", "n", "h">>,
     height       |-> <<"_", "h">>,
     physical     |-> <<"_", "o", "r", "m">>,
     specular     |-> <<"_", "s">>,
     addition     |-> <<"_", "a">>,
     preview      |-> <<"_", "p">>]

\* self.suffixes after setSuffixes() with its defaults
suffixes == defaultSuffixes

slothFileExt == <<".", "s", "l", "o", "t", "h">>

defaultSlothFile == <<"o", "p", "t", "i", "o", "n", "s">> \o slothFileExt

extBlackList == {<<".", "o", "r", "a">>, <<".", "p", "s", "d">>, <<".", "x", "c", "f">>}

defaultRenderer == <<"x", "r", "e", "a", "l">>

supportedRenderers ==
    {<<"q", "u", "a", "k", "e", "3">>, defaultRenderer, <<"d", "a", "e", "m", "o", "n">>}

alphaFuncs == {<<"G", "T", "0">>, <<"G", "E", "1", "2", "8">>, <<"L", "T", "1", "2", "8">>}

-----------------------------------------------------------------------------
(* Option bundles.  Floats are held in hundredths. *)

NoAlphaTest == [kind |-> "none", s |-> <<>>, f |-> 0]

AlphaFunc(name) == [kind |-> "str", s |-> name, f |-> 0]

AlphaFrac(f) == [kind |-> "float", s |-> <<>>, f |-> f]

\* self["options"] as __init__ leaves it
InitOptions ==
    [lightColors      |-> <<>>,
     customLights     |-> <<>>,
     predefLights     |-> <<>>,
     precalcColors    |-> FALSE,
     guessKeywords    |-> FALSE,
     radToAddExp      |-> 100,
     heightNormalsMod |-> 100,
     editorOpacity    |-> 100,
     alphaTest        |-> NoAlphaTest,
     alphaShadows     |-> TRUE,
     renderer         |-> defaultRenderer,
     keywords         |-> <<>>,
     addKeywords      |-> <<>>,
     delKeywords      |-> <<>>]

\* The heap cell of the generator's own bundle, self["options"]
SelfRef == 1

\* What an operation on a bundle gives: the bundle, what it logged, and the
\* exception that left it
Res(b, log, e) == [b |-> b, log |-> log, exc |-> e]

Ok(b) == Res(b, <<>>, NoExc)

setKeywordGuessing(b, value) == Ok([b EXCEPT !.guessKeywords = value])

setRadToAddExponent(b, value) == Ok([b EXCEPT !.radToAddExp = value])

setHeightNormalsMod(b, value) == Ok([b EXCEPT !.heightNormalsMod = value])

setEditorOpacity(b, value) ==
    IF 0 < value /\ value <= 100 THEN Ok([b EXCEPT !.editorOpacity = value])
    ELSE Res(b, <<ErrorMsg("Editor transparency must be a float in ]0,1].")>>, NoExc)

\* test is NoAlphaTest, AlphaFunc(name) or AlphaFrac(f)
setAlphaTest(b, test) ==
    IF test.kind = "float" /\ 0 <= test.f /\ test.f <= 100
    THEN Ok([b EXCEPT !.alphaTest = test])
    ELSE IF test.kind = "str" /\ test.s \in alphaFuncs
    THEN Ok([b EXCEPT !.alphaTest = test])
    ELSE IF test.kind = "none"
    THEN Ok([b EXCEPT !.alphaTest = NoAlphaTest])
    ELSE Res([b EXCEPT !.alphaTest = NoAlphaTest],
             <<ErrorMsg("Alpha test must be either None, a valid string or a float in [0,1].")>>,
             NoExc)

setAlphaShadows(b, value) == Ok([b EXCEPT !.alphaShadows = value])

setPrecalcColors(b, value) == Ok([b EXCEPT !.precalcColors = value])

setRenderer(b, renderer) ==
    IF renderer \in supportedRenderers THEN Ok([b EXCEPT !.renderer = renderer])
    ELSE Res(b, <<ErrorMsg("Renderer not supported.")>>, NoExc)

HexDigits == <<"0", "1", "2", "3", "4", "5", "6", "7", "8", "9", "a", "b", "c", "d", "e", "f">>

IsHex(c) == \E i \in DOMAIN HexDigits : HexDigits[i] = c

HexVal(c) == (CHOOSE i \in DOMAIN HexDigits : HexDigits[i] = c) - 1

\* colorRE.match(color)
colorRE(color) == Len(color) = 6 /\ \A i \in 1..6 : IsHex(color[i])

\* int(color[i:i+2], 16), i counted from 1
HexByte(color, i) == 16 * HexVal(color[i]) + HexVal(color[i + 1])

addLightColor(b, name, color) ==
    IF ~colorRE(color) THEN Res(b, <<ErrorMsg("Not a valid color.")>>, NoExc)
    ELSE LET rgb == <<HexByte(color, 1), HexByte(color, 3), HexByte(color, 5)>>
             log == IF DictHas(b.lightColors, name) /\ rgb # DictGet(b.lightColors, name)
                    THEN <<VerboseMsg("Overwriting light color")>>
                    ELSE <<>>
         IN  Res([b EXCEPT !.lightColors = DictSet(@, name, rgb)], log, NoExc)

\* A naming that abbreviates from one thousand on
NameFromThousand(intensity) ==
    IF intensity >= 1000 THEN IntToStr(intensity \div 1000) \o <<"k">>
    ELSE IF intensity = 0 THEN <<"n", "o", "r", "a", "d">>
    ELSE IntToStr(intensity)

\* The name a light intensity is stored under
IntensityName(intensity) ==
    IF intensity >= 10000 THEN IntToStr(intensity \div 1000) \o <<"k">>
    ELSE IF intensity = 0 THEN <<"n", "o", "r", "a", "d">>
    ELSE IntToStr(intensity)

addLightIntensity(b, intensity, custom) ==
    IF intensity < 0 THEN Res(b, <<VerboseMsg("Ignoring negative light intensity.")>>, NoExc)
    ELSE IF custom
    THEN Ok([b EXCEPT !.customLights = DictSet(@, IntensityName(intensity), intensity)])
    ELSE Ok([b EXCEPT !.predefLights = DictSet(@, IntensityName(intensity), intensity)])

-----------------------------------------------------------------------------
(* Option files.  A file is [status, sections]; a section is [name, items]; *)
(* an item is [key, val] with val a configparser value.                     *)

Lower(c) ==
    CASE c = "A" -> "a" [] c = "D" -> "d" [] c = "P" -> "p" [] c = "S" -> "s"
      [] OTHER -> c

\* str.lower()
LowerStr(s) == [i \in DOMAIN s |-> Lower(s[i])]

Conv(ok, v) == [ok |-> ok, v |-> v]

\* The value of a run of decimal digits
RECURSIVE DigitsVal(_)
DigitsVal(s) ==
    IF s = <<>> THEN 0 ELSE 10 * DigitsVal(SubSeq(s, 1, Len(s) - 1)) + DigitVal(s[Len(s)])

AllDigits(s) == s # <<>> /\ \A i \in DOMAIN s : IsDigit(s[i])

\* int(text): decimal digits with an optional sign
ParseInt(text) ==
    IF AllDigits(text) THEN Conv(TRUE, DigitsVal(text))
    ELSE IF text # <<>> /\ Head(text) = "-" /\ AllDigits(Tail(text))
    THEN Conv(TRUE, 0 - DigitsVal(Tail(text)))
    ELSE Conv(FALSE, 0)

\* float(text), in hundredths: digits with at most two decimals and an
\* optional sign
ParseFloat(text) ==
    LET neg == text # <<>> /\ Head(text) = "-"
        Of(f) ==
            IF \/ Len(f) = 1 /\ AllDigits(f[1])
               \/ Len(f) = 2 /\ AllDigits(f[1]) /\ AllDigits(f[2]) /\ Len(f[2]) <= 2
            THEN Conv(TRUE, (IF neg THEN -1 ELSE 1)
                            * (100 * DigitsVal(f[1])
                               + (IF Len(f) = 1 THEN 0
                                  ELSE IF Len(f[2]) = 1 THEN 10 * DigitsVal(f[2])
                                  ELSE DigitsVal(f[2]))))
            ELSE Conv(FALSE, 0)
    IN  Of(SplitOn(IF neg THEN Tail(text) ELSE text, "."))

\* ConfigParser.BOOLEAN_STATES
ParseBool(text) ==
    LET t == LowerStr(text)
    IN  IF t \in {<<"1">>, <<"y", "e", "s">>, <<"t", "r", "u", "e">>, <<"o", "n">>}
        THEN Conv(TRUE, TRUE)
        ELSE IF t \in {<<"0">>, <<"n", "o">>, <<"f", "a", "l", "s", "e">>, <<"o", "f", "f">>}
        THEN Conv(TRUE, FALSE)
        ELSE Conv(FALSE, FALSE)

\* for nameAndColor in options[option].split(): ...
RECURSIVE AddColors(_, _)
AddColors(r, toks) ==
    IF toks = <<>> THEN r
    ELSE LET parts == SplitOn(Head(toks), ":")
         IN  IF Len(parts) # 2 THEN AddColors(r, Tail(toks))
             ELSE LET q == addLightColor(r.b, parts[1], parts[2])
                  IN  AddColors(Res(q.b, r.log \o q.log, NoExc), Tail(toks))

\* for intensity in options[option].split(): ...
RECURSIVE AddIntensities(_, _, _)
AddIntensities(r, toks, custom) ==
    IF toks = <<>> THEN r
    ELSE LET n == ParseInt(Head(toks))
         IN  IF ~n.ok THEN Res(r.b, r.log, "ValueError")
             ELSE LET q == addLightIntensity(r.b, n.v, custom)
                  IN  AddIntensities(Res(q.b, r.log \o q.log, NoExc), Tail(toks), custom)

\* options.getboolean(option)
getboolean(val) ==
    IF val.none THEN [exc |-> "AttributeError", v |-> FALSE]
    ELSE LET c == ParseBool(val.s)
         IN  [exc |-> IF c.ok THEN NoExc ELSE "ValueError", v |-> c.v]

\* options.getfloat(option)
getfloat(val) ==
    IF val.none THEN [exc |-> "TypeError", v |-> 0]
    ELSE LET Then(c) == [exc |-> IF c.ok THEN NoExc ELSE "ValueError", v |-> c.v]
         IN  Then(ParseFloat(val.s))

\* One key of the [options] section
ApplyOption(b, item) ==
    LET key == item.key
        val == item.val
    IN  CASE key = "colors" ->
               LET cleared == [b EXCEPT !.lightColors = <<>>]
               IN  IF val.none THEN Res(cleared, <<>>, "AttributeError")
                   ELSE AddColors(Ok(cleared), SplitBlank(val.s))
          [] key = "addColors" ->
               IF val.none THEN Res(b, <<>>, "AttributeError")
               ELSE AddColors(Ok(b), SplitBlank(val.s))
          [] key = "predefLights" ->
               LET cleared == [b EXCEPT !.predefLights = <<>>]
               IN  IF val.none THEN Res(cleared, <<>>, "AttributeError")
                   ELSE AddIntensities(Ok(cleared), SplitBlank(val.s), FALSE)
          [] key = "precalcColors" ->
               LET Set(c) == IF c.exc # NoExc THEN Res(b, <<>>, c.exc) ELSE setPrecalcColors(b, c.v)
               IN  Set(getboolean(val))
          [] key = "addPredefLights" ->
               IF val.none THEN Res(b, <<>>, "AttributeError")
               ELSE AddIntensities(Ok(b), SplitBlank(val.s), FALSE)
          [] key = "customLights" ->
               LET cleared == [b EXCEPT !.customLights = <<>>]
               IN  IF val.none THEN Res(cleared, <<>>, "AttributeError")
                   ELSE AddIntensities(Ok(cleared), SplitBlank(val.s), TRUE)
          [] key = "addCustomLights" ->
               IF val.none THEN Res(b, <<>>, "AttributeError")
               ELSE AddIntensities(Ok(b), SplitBlank(val.s), TRUE)
          [] key = "colorBlendExp" ->
               LET Set(c) == IF c.exc # NoExc THEN Res(b, <<>>, c.exc) ELSE setRadToAddExponent(b, c.v)
               IN  Set(getfloat(val))
          [] key = "alphaFunc" ->
               setAlphaTest(b, IF val.none THEN NoAlphaTest ELSE AlphaFunc(val.s))
          [] key = "alphaTest" ->
               LET Set(c) == IF c.exc # NoExc THEN Res(b, <<>>, c.exc)
                   ELSE setAlphaTest(b, AlphaFrac(c.v))
               IN  Set(getfloat(val))
          [] key = "alphaShadows" ->
               LET Set(c) == IF c.exc # NoExc THEN Res(b, <<>>, c.exc) ELSE setAlphaShadows(b, c.v)
               IN  Set(getboolean(val))
          [] key = "heightNormalsMod" ->
               LET Set(c) == IF c.exc # NoExc THEN Res(b, <<>>, c.exc) ELSE setHeightNormalsMod(b, c.v)
               IN  Set(getfloat(val))
          [] key = "editorOpacity" ->
               LET Set(c) == IF c.exc # NoExc THEN Res(b, <<>>, c.exc) ELSE setEditorOpacity(b, c.v)
               IN  Set(getfloat(val))
          [] key = "renderer" ->
               IF val.none THEN Res(b, <<>>, "TypeError")
               ELSE setRenderer(b, val.s)
          [] OTHER -> Res(b, <<ErrorMsg("Invalid option.")>>, NoExc)

\* for option in options: ..., until an exception leaves the loop
RECURSIVE ApplyOptions(_, _)
ApplyOptions(r, items) ==
    IF items = <<>> \/ r.exc # NoExc THEN r
    ELSE LET Then(q) == ApplyOptions(Res(q.b, r.log \o q.log, q.exc), Tail(items))
         IN  Then(ApplyOption(r.b, Head(items)))

\* An entry of a keyword dict: None, or a set of values
KwNone == [none |-> TRUE, vals |-> {}]

KwSet(vals) == [none |-> FALSE, vals |-> vals]

\* One key of a [keywords], [addKeywords] or [delKeywords] section, on the
\* bundle's dict d of that section
ApplyKeyword(d, item) ==
    IF ~item.val.none /\ item.val.s # <<>>
    THEN LET cur == IF DictHas(d, item.key) THEN DictGet(d, item.key) ELSE KwSet({})
         IN  IF cur.none THEN [d |-> d, exc |-> "AttributeError"]
             ELSE [d |-> DictSet(d, item.key, KwSet(cur.vals \cup Range(SplitBlank(item.val.s)))),
                   exc |-> NoExc]
    ELSE [d |-> DictSet(d, item.key, KwNone), exc |-> NoExc]

\* for key, value in config[section].items(): ...
RECURSIVE ApplyKeywords(_, _)
ApplyKeywords(q, items) ==
    IF items = <<>> \/ q.exc # NoExc THEN q
    ELSE ApplyKeywords(ApplyKeyword(q.d, Head(items)), Tail(items))

ApplySection(b, section) ==
    IF section.name = "options" THEN ApplyOptions(Ok(b), section.items)
    ELSE IF section.name \in {"keywords", "addKeywords", "delKeywords"}
    THEN LET Then(q) == Res([b EXCEPT ![section.name] = q.d], <<>>, q.exc)
         IN  Then(ApplyKeywords([d |-> b[section.name], exc |-> NoExc], section.items))
    ELSE Res(b, <<ErrorMsg("Invalid section.")>>, NoExc)

\* for section in config: ...
RECURSIVE ApplySections(_, _)
ApplySections(r, sections) ==
    IF sections = <<>> \/ r.exc # NoExc THEN r
    ELSE LET Then(q) == ApplySections(Res(q.b, r.log \o q.log, q.exc), Tail(sections))
         IN  Then(ApplySection(r.b, Head(sections)))

\* __parseSlothFile on the bundle b
parseSlothFile(b, cfg) ==
    IF cfg.status = "ioerror" THEN Res(b, <<ErrorMsg("Couldn't read file.")>>, NoExc)
    ELSE IF cfg.status = "parseerror" THEN Res(b, <<ErrorMsg("Parsing error.")>>, NoExc)
    ELSE ApplySections(Ok(b), cfg.sections)

-----------------------------------------------------------------------------
(* Directories.  A directory is [relpath, files], files in listing order;   *)
(* a file is [name, img, cfg]: what Image.open and ConfigParser make of it. *)
(* An image is [ok, mode, alphaMin, alphaBin, transparency, colors,         *)
(* average]: whether it decodes, its mode, the minimum of its last band,    *)
(* whether every byte of that band is 0 or 255, whether img.info has a      *)
(* transparency entry, what getcolors(256) of the RGB image shows ("gray":  *)
(* only colors with equal channels, "color": some other color, "many":      *)
(* more than 256 colors), and the channel means in thousandths.             *)

\* os.path.splitext(filename)
SplitExt(filename) ==
    LET dots == {i \in 1..Len(filename) : filename[i] = "."}
        last == CHOOSE i \in dots : \A j \in dots : j <= i
    IN  IF dots = {} \/ (\A j \in 1..(last - 1) : filename[j] = ".")
        THEN [root |-> filename, ext |-> <<>>]
        ELSE [root |-> SubSeq(filename, 1, last - 1),
              ext  |-> SubSeq(filename, last, Len(filename))]

\* The file of a directory with the given name
FileNamed(dir, filename) ==
    dir.files[CHOOSE i \in DOMAIN dir.files : dir.files[i].name = filename]

InListing(dir, filename) == \E i \in DOMAIN dir.files : dir.files[i].name = filename

NoMaps == [t \in Range(MapTypes) |-> {}]

\* One pass of "for filename in filelist": sc is [typed, mapsbytype, mapext,
\* slothfiles, log]; typed says whether mapsbytype has its keys yet
ScanFile(sc, filename) ==
    LET p == SplitExt(filename)
    IN  IF LowerStr(p.ext) \in extBlackList
        THEN [sc EXCEPT !.log = Append(@, VerboseMsg("Unsupported format"))]
        ELSE IF p.ext = slothFileExt
        THEN [sc EXCEPT !.slothfiles = @ \cup {p.root}]
        ELSE [sc EXCEPT
                !.typed = TRUE,
                !.mapsbytype = [t \in Range(MapTypes) |->
                                  IF EndsWith(p.root, suffixes[t])
                                  THEN sc.mapsbytype[t] \cup {p.root}
                                  ELSE sc.mapsbytype[t]],
                !.mapext = IF \E t \in Range(MapTypes) : EndsWith(p.root, suffixes[t])
                           THEN DictSet(sc.mapext, p.root, p.ext)
                           ELSE sc.mapext]

RECURSIVE ScanFiles(_, _)
ScanFiles(sc, files) ==
    IF files = <<>> THEN sc ELSE ScanFiles(ScanFile(sc, Head(files).name), Tail(files))

\* "retrieve all maps by type"
Scan(dir) ==
    ScanFiles([typed |-> FALSE, mapsbytype |-> NoMaps, mapext |-> <<>>,
               slothfiles |-> {}, log |-> <<>>], dir.files)

\* The set name generateSet uses
SetName(relpath, setname, cutextension) ==
    IF setname # None THEN setname
    ELSE IF cutextension # None THEN RSplitHead(relpath, cutextension)
    ELSE relpath

\* A copy that shares the source's bundle
CopyShared(h, source) == [heap |-> h, ref |-> source]

\* __copyOptions: target["options"] = copy.deepcopy(source["options"]); gives
\* the heap with the copy in a new cell, and the reference to it
CopyOptions(h, source) == [heap |-> Append(h, h[source]), ref |-> Len(h) + 1]

\* Option files applied from the longest matching name down to position pos
RECURSIVE ParseDown(_, _, _, _, _, _)
ParseDown(r, dir, slothfiles, shadername, pos, k) ==
    IF k < pos \/ r.exc # NoExc THEN r
    ELSE LET Then(q) ==
                 ParseDown(Res(q.b, r.log \o q.log, q.exc), dir, slothfiles, shadername, pos, k - 1)
         IN  IF SubSeq(shadername, 1, k) \in slothfiles
             THEN Then(parseSlothFile(
                           r.b, FileNamed(dir, SubSeq(shadername, 1, k) \o slothFileExt).cfg))
             ELSE ParseDown(r, dir, slothfiles, shadername, pos, k - 1)

ParseLongestFirst(r, dir, slothfiles, shadername, pos) ==
    ParseDown(r, dir, slothfiles, shadername, pos, Len(shadername))

\* "attempt to find per-prefix/shader options file": r is the result so far
\* on the shader's bundle, pos counts from 1
RECURSIVE ParsePrefixFiles(_, _, _, _, _)
ParsePrefixFiles(r, dir, slothfiles, shadername, pos) ==
    IF pos > Len(shadername) \/ r.exc # NoExc THEN r
    ELSE LET Then(q) ==
                 ParsePrefixFiles(
                     Res(q.b, r.log \o <<DebugMsg("Parsing per-prefix options file")>> \o q.log,
                         q.exc),
                     dir, slothfiles, shadername, pos + 1)
         IN  IF SubSeq(shadername, 1, pos) \in slothfiles
             THEN Then(parseSlothFile(
                           r.b, FileNamed(dir, SubSeq(shadername, 1, pos) \o slothFileExt).cfg))
             ELSE ParsePrefixFiles(r, dir, slothfiles, shadername, pos + 1)

\* A search that takes the first prefix that matches, from the shortest
FindShortest(basename, suffix, candidates) ==
    IF \A k \in 1..Len(basename) : (SubSeq(basename, 1, k) \o suffix) \notin candidates
    THEN None
    ELSE SubSeq(basename, 1, CHOOSE k \in 1..Len(basename) :
                   /\ (SubSeq(basename, 1, k) \o suffix) \in candidates
                   /\ \A j \in 1..(k - 1) : (SubSeq(basename, 1, j) \o suffix) \notin candidates)
         \o suffix

\* "attempt to find a map of every known non-diffuse type": the map name
\* found for one type, None if there is none
RECURSIVE FindMap(_, _, _)
FindMap(basename, suffix, candidates) ==
    IF basename = <<>> THEN None
    ELSE IF (basename \o suffix) \in candidates THEN basename \o suffix
    ELSE FindMap(SubSeq(basename, 1, Len(basename) - 1), suffix, candidates)

\* shader[maptype] and shader["ext"][maptype] for every type
FindMaps(shadername, sc) ==
    LET found == [t \in Range(MapTypes) |-> FindMap(shadername, suffixes[t], sc.mapsbytype[t])]
    IN  found @@ ("ext" :> [t \in Range(MapTypes) |->
                              IF found[t] = None THEN None ELSE DictGet(sc.mapext, found[t])])

-----------------------------------------------------------------------------
(* Metadata and keywords *)

\* A metadata bag with one more key set
MetaSet(meta, key, value) == (key :> value) @@ meta

\* __analyzeMaps: shader has its maps; gives the metadata bag, the log and
\* the exception
analyzeMaps(shader, b, meta) ==
    IF shader.diffuse = None THEN [meta |-> meta, log |-> <<>>, exc |-> "TypeError"]
    ELSE
    LET dir   == shader.abspath
        img   == FileNamed(dir, shader.diffuse \o shader.ext.diffuse).img
        white == img.mode \in {"RGBA", "LA"} /\ img.alphaMin = 255
        alpha == IF img.mode \in {"RGBA", "LA"} THEN img.alphaMin # 255
                 ELSE img.mode = "p" /\ img.transparency
        m1    == MetaSet(MetaSet(meta, "diffuseAlpha", alpha),
                         "diffuseAlphaBin", alpha /\ img.alphaBin)
        log1  == IF white THEN <<VerboseMsg("Found completely white alpha channel")>> ELSE <<>>
    IN  IF ~img.ok THEN [meta |-> meta, log |-> <<>>, exc |-> "OSError"]
        ELSE IF shader.addition = None THEN [meta |-> m1, log |-> log1, exc |-> NoExc]
        ELSE
        LET add  == FileNamed(dir, shader.addition \o shader.ext.addition).img
            gray == add.mode \in {"L", "LA"} \/ add.colors = "gray"
            m2   == MetaSet(m1, "additionGrayscale", gray)
            avg  == IF gray THEN <<add.average[1], add.average[1], add.average[1]>>
                    ELSE add.average
            m3   == IF b.precalcColors THEN MetaSet(m2, "additionAverage", avg) ELSE m2
        IN  IF ~add.ok THEN [meta |-> m1, log |-> log1, exc |-> "OSError"]
            ELSE [meta |-> m3, log |-> log1, exc |-> NoExc]

\* word in name
Contains(name, word) ==
    \E i \in 1..Len(name) :
        i + Len(word) - 1 <= Len(name) /\ SubSeq(name, i, i + Len(word) - 1) = word

kwSurfaceparm == <<"s", "u", "r", "f", "a", "c", "e", "p", "a", "r", "m">>

kwCull == <<"c", "u", "l", "l">>

kwTrans == <<"t", "r", "a", "n", "s">>

kwAlphashadow == <<"a", "l", "p", "h", "a", "s", "h", "a", "d", "o", "w">>

kwNoneValue == <<"n", "o", "n", "e">>

surfaceParms ==
    <<
      [parm  |-> <<"d", "o", "n", "o", "t", "e", "n", "t", "e", "r">>,
       words |-> <<<<"l", "a", "v", "a">>,
                   <<"s", "l", "i", "m", "e">>>>],
      [parm  |-> <<"d", "u", "s", "t">>,
       words |-> <<<<"s", "a", "n", "d">>,
                   <<"d", "u", "s", "t">>>>],
      [parm  |-> <<"f", "l", "e", "s", "h">>,
       words |-> <<<<"f", "l", "e", "s", "h">>,
                   <<"m", "e", "a", "t">>,
                   <<"o", "r", "g", "a", "n">>>>],
      [parm  |-> <<"l", "a", "d", "d", "e", "r">>,
       words |-> <<<<"l", "a", "d", "d", "e", "r">>>>],
      [parm  |-> <<"l", "a", "v", "a">>,
       words |-> <<<<"l", "a", "v", "a">>>>],
      [parm  |-> <<"m", "e", "t", "a", "l", "s", "t", "e", "p", "s">>,
       words |-> <<<<"m", "e", "t", "a", "l">>,
                   <<"s", "t", "e", "e", "l">>,
                   <<"i", "r", "o", "n">>,
                   <<"t", "r", "e", "a", "d">>,
                   <<"g", "r", "a", "t", "e">>>>],
      [parm  |-> <<"s", "l", "i", "c", "k">>,
       words |-> <<<<"i", "c", "e">>>>],
      [parm  |-> <<"s", "l", "i", "m", "e">>,
       words |-> <<<<"s", "l", "i", "m", "e">>>>],
      [parm  |-> <<"w", "a", "t", "e", "r">>,
       words |-> <<<<"w", "a", "t", "e", "r">>>>]
    >>

\* keywords.setdefault("surfaceparm", set()); keywords["surfaceparm"].add(value)
AddSurfaceparm(kw, value) ==
    LET cur == IF DictHas(kw, kwSurfaceparm) THEN DictGet(kw, kwSurfaceparm) ELSE KwSet({})
    IN  DictSet(kw, kwSurfaceparm, KwSet(cur.vals \cup {value}))

\* "handle transparent diffuse map"
AlphaKeywords(kw, b, meta) ==
    IF meta.diffuseAlpha
    THEN LET k1 == DictSet(AddSurfaceparm(kw, kwTrans), kwCull, KwSet({kwNoneValue}))
         IN  IF b.alphaShadows THEN AddSurfaceparm(k1, kwAlphashadow) ELSE k1
    ELSE kw

\* "attempt to guess additional keywords"
RECURSIVE GuessKeywords(_, _, _)
GuessKeywords(kw, name, i) ==
    IF i > Len(surfaceParms) THEN kw
    ELSE GuessKeywords(
             IF \E j \in DOMAIN surfaceParms[i].words : Contains(name, surfaceParms[i].words[j])
             THEN AddSurfaceparm(kw, surfaceParms[i].parm)
             ELSE kw,
             name, i + 1)

\* "overlay keywords defined in options, overwrite on conflict"
RECURSIVE OverlayKeywords(_, _)
OverlayKeywords(kw, items) ==
    IF items = <<>> THEN kw
    ELSE OverlayKeywords(DictSet(kw, Head(items).k, Head(items).v), Tail(items))

\* One pass of "for key, value in options["addKeywords"].items()"
AddOneKeyword(kw, key, value) ==
    IF ~DictHas(kw, key) THEN [kw |-> DictSet(kw, key, value), exc |-> NoExc]
    ELSE LET cur == DictGet(kw, key)
         IN  IF cur.none THEN [kw |-> kw, exc |-> "AttributeError"]
             ELSE IF value.none THEN [kw |-> kw, exc |-> "TypeError"]
             ELSE [kw |-> DictSet(kw, key, KwSet(cur.vals \cup value.vals)), exc |-> NoExc]

\* "overlay keywords defined in options, if possible extend on conflict"
RECURSIVE AddKeywordItems(_, _)
AddKeywordItems(q, items) ==
    IF items = <<>> \/ q.exc # NoExc THEN q
    ELSE AddKeywordItems(AddOneKeyword(q.kw, Head(items).k, Head(items).v), Tail(items))

\* One pass of "for key, value in options["delKeywords"].items()"
DelOneKeyword(kw, key, value) ==
    IF ~DictHas(kw, key) THEN [kw |-> kw, exc |-> NoExc]
    ELSE IF value.none THEN [kw |-> DictPop(kw, key), exc |-> NoExc]
    ELSE LET cur == DictGet(kw, key)
         IN  IF cur.none THEN [kw |-> kw, exc |-> "AttributeError"]
             ELSE IF cur.vals \ value.vals = {} THEN [kw |-> DictPop(kw, key), exc |-> NoExc]
             ELSE [kw |-> DictSet(kw, key, KwSet(cur.vals \ value.vals)), exc |-> NoExc]

\* "delete specified keywords"
RECURSIVE DelKeywordItems(_, _)
DelKeywordItems(q, items) ==
    IF items = <<>> \/ q.exc # NoExc THEN q
    ELSE DelKeywordItems(DelOneKeyword(q.kw, Head(items).k, Head(items).v), Tail(items))

\* The keyword table before the options' keyword dicts are applied
DerivedKeywords(name, b, meta) ==
    LET k1 == AlphaKeywords(<<>>, b, meta)
    IN  IF b.guessKeywords THEN GuessKeywords(k1, name, 1) ELSE k1

\* __addKeywords: gives the keyword table and the exception
addKeywords(name, b, meta) ==
    LET k3 == OverlayKeywords(DerivedKeywords(name, b, meta), b.keywords)
        q4 == AddKeywordItems([kw |-> k3, exc |-> NoExc], b.addKeywords)
    IN  DelKeywordItems(q4, b.delKeywords)

-----------------------------------------------------------------------------
(* Light variant expansion *)

\* copy.deepcopy(shader): the copy has its own option bundle and metadata bag
DeepCopyShader(h, shader) ==
    [heap   |-> h \o <<h[shader.options], h[shader.meta]>>,
     shader |-> [shader EXCEPT !.options = Len(h) + 1, !.meta = Len(h) + 2]]

\* A variant name that leaves the color out
NameWithoutColor(shadername, colorName, intensityName) ==
    shadername \o <<"_">> \o intensityName

\* The name of a variant with a light color
ColorVariantName(shadername, colorName, intensityName) ==
    shadername \o <<"_">> \o colorName \o <<"_">> \o intensityName

\* The name of a variant without a light color
PredefVariantName(shadername, intensityName) == shadername \o <<"_">> \o intensityName

OffName(shadername) == shadername \o <<"_", "o", "f", "f">>

\* "for intensityName, intensity in shader["options"]["customLights"].items()"
\* for one color; e is [heap, newShaders]
RECURSIVE ExpandCustom(_, _, _, _, _)
ExpandCustom(e, shadername, shader, color, lights) ==
    IF lights = <<>> THEN e
    ELSE LET c    == DeepCopyShader(e.heap, shader)
             m1   == MetaSet(c.heap[c.shader.meta], "lightIntensity", Head(lights).v)
             m2   == MetaSet(m1, "lightColor",
                             [r |-> color.v[1], g |-> color.v[2], b |-> color.v[3]])
             name == ColorVariantName(shadername, color.k, Head(lights).k)
         IN  ExpandCustom([heap       |-> [c.heap EXCEPT ![c.shader.meta] = m2],
                           newShaders |-> DictSet(e.newShaders, name, c.shader)],
                          shadername, shader, color, Tail(lights))

\* "for colorName, (r, g, b) in shader["options"]["lightColors"].items()"
RECURSIVE ExpandColors(_, _, _, _)
ExpandColors(e, shadername, shader, colors) ==
    IF colors = <<>> THEN e
    ELSE ExpandColors(ExpandCustom(e, shadername, shader, Head(colors),
                                   e.heap[shader.options].customLights),
                      shadername, shader, Tail(colors))

\* "for intensityName, intensity in shader["options"]["predefLights"].items()"
RECURSIVE ExpandPredef(_, _, _, _)
ExpandPredef(e, shadername, shader, lights) ==
    IF lights = <<>> THEN e
    ELSE LET c    == DeepCopyShader(e.heap, shader)
             m1   == MetaSet(c.heap[c.shader.meta], "lightIntensity", Head(lights).v)
             name == PredefVariantName(shadername, Head(lights).k)
         IN  ExpandPredef([heap       |-> [c.heap EXCEPT ![c.shader.meta] = m1],
                           newShaders |-> DictSet(e.newShaders, name, c.shader)],
                          shadername, shader, Tail(lights))

\* An expansion that leaves a shader alone when it has nothing to expand by
ExpandUnlessEmpty(x, shadername, shader) ==
    IF \/ shader.addition = None
       \/ /\ x.heap[shader.meta].additionGrayscale
          /\ (\/ x.heap[shader.options].lightColors = <<>>
              \/ x.heap[shader.options].customLights = <<>>)
       \/ /\ ~x.heap[shader.meta].additionGrayscale
          /\ x.heap[shader.options].predefLights = <<>>
    THEN x
    ELSE LET Off(e) ==
                 [heap       |-> e.heap,
                  newShaders |-> DictSet(e.newShaders, OffName(shadername),
                                         [shader EXCEPT !.addition = None]),
                  delNames   |-> x.delNames \cup {shadername}]
         IN  Off(IF x.heap[shader.meta].additionGrayscale
                 THEN ExpandColors([heap |-> x.heap, newShaders |-> x.newShaders],
                                   shadername, shader, x.heap[shader.options].lightColors)
                 ELSE ExpandPredef([heap |-> x.heap, newShaders |-> x.newShaders],
                                   shadername, shader, x.heap[shader.options].predefLights))

\* One pass of "for shadername in self.sets[setname]": x is [heap, newShaders,
\* delNames]
ExpandOne(x, shadername, shader) ==
    IF shader.addition = None THEN x
    ELSE LET e0 == [heap |-> x.heap, newShaders |-> x.newShaders]
             e1 == IF x.heap[shader.meta].additionGrayscale
                   THEN ExpandColors(e0, shadername, shader,
                                     x.heap[shader.options].lightColors)
                   ELSE ExpandPredef(e0, shadername, shader,
                                     x.heap[shader.options].predefLights)
         IN  [heap       |-> e1.heap,
              newShaders |-> DictSet(e1.newShaders, OffName(shadername),
                                     [shader EXCEPT !.addition = None]),
              delNames   |-> x.delNames \cup {shadername}]

RECURSIVE ExpandAll(_, _)
ExpandAll(x, entries) ==
    IF entries = <<>> THEN x
    ELSE ExpandAll(ExpandOne(x, Head(entries).k, Head(entries).v), Tail(entries))

\* __expandLightShaders on the shaders of one set: gives [heap, shaders]
expandLightShaders(h, shaders) ==
    LET x    == ExpandAll([heap |-> h, newShaders |-> <<>>, delNames |-> {}], shaders)
        kept == SelectSeq(shaders, LAMBDA entry : entry.k \notin x.delNames)
    IN  [heap |-> x.heap, shaders |-> DictUpdate(kept, x.newShaders)]

-----------------------------------------------------------------------------
(* generateSet *)

\* One pass of "for diffusename in mapsbytype["diffuse"]": st is [heap,
\* shaders, log, exc], options the reference to the directory's bundle
ProcessShader(st, dir, sc, options, diffusename) ==
    LET Stored(h, shader, log, e) ==
            [heap |-> h, shaders |-> DictSet(st.shaders, shader.name, shader),
             log |-> st.log \o log, exc |-> e]
        Keyworded(h, mapped, log, k) ==
            Stored(h, ("keywords" :> k.kw) @@ mapped, log, k.exc)
        Analyzed(h, mapped, log, a) ==
            IF a.exc # NoExc
            THEN Stored([h EXCEPT ![mapped.meta] = a.meta], mapped, log \o a.log, a.exc)
            ELSE Keyworded([h EXCEPT ![mapped.meta] = a.meta], mapped, log \o a.log,
                           addKeywords(mapped.name, h[mapped.options], a.meta))
        Mapped(h, mapped, log) ==
            Analyzed(h, mapped, log, analyzeMaps(mapped, h[mapped.options], h[mapped.meta]))
        Parsed(h, base, p) ==
            IF p.exc # NoExc
            THEN Stored([h EXCEPT ![base.options] = p.b], base, p.log, p.exc)
            ELSE Mapped([h EXCEPT ![base.options] = p.b], FindMaps(base.name, sc) @@ base,
                        p.log)
        Named(c, shadername) ==
            Parsed(Append(c.heap, <<>>),
                   [options |-> c.ref,
                    name    |-> shadername,
                    relpath |-> dir.relpath,
                    abspath |-> dir,
                    diffuse |-> diffusename,
                    ext     |-> [t \in {"diffuse"} |-> DictGet(sc.mapext, diffusename)],
                    meta    |-> Len(c.heap) + 1],
                   ParsePrefixFiles(Ok(c.heap[c.ref]), dir, sc.slothfiles, shadername, 1))
    IN  Named(CopyOptions(st.heap, options), RSplitHead(diffusename, suffixes.diffuse))

\* "add a shader for each diffuse map", in the order the set is iterated
RECURSIVE ProcessShaders(_, _, _, _, _)
ProcessShaders(st, dir, sc, options, order) ==
    IF order = <<>> \/ st.exc # NoExc THEN st
    ELSE ProcessShaders(ProcessShader(st, dir, sc, options, Head(order)),
                        dir, sc, options, Tail(order))

\* The orders in which a set may be iterated
Orderings(S) ==
    {o \in [1..Cardinality(S) -> S] : \A i, j \in DOMAIN o : i # j => o[i] # o[j]}

\* generateSet on self.sets S and the heap h: gives [sets, heap, log, exc]
generateSet(S, h, dir, setnameArg, cutextension, order) ==
    LET Expanded(S1, setname, st, x) ==
            [sets |-> DictSet(S1, setname, x.shaders), heap |-> x.heap,
             log |-> Append(st.log, VerboseMsg("Added shaders")), exc |-> NoExc]
        Processed(S1, setname, st) ==
            IF st.exc # NoExc
            THEN [sets |-> DictSet(S1, setname, st.shaders), heap |-> st.heap,
                  log |-> st.log, exc |-> st.exc]
            ELSE Expanded(S1, setname, st, expandLightShaders(st.heap, st.shaders))
        Parsed(sc, S1, setname, c, p) ==
            IF p.exc # NoExc \/ ~sc.typed
            THEN [sets |-> S1, heap |-> [c.heap EXCEPT ![c.ref] = p.b], log |-> sc.log \o p.log,
                  exc |-> IF p.exc # NoExc THEN p.exc ELSE "KeyError"]
            ELSE Processed(S1, setname,
                           ProcessShaders([heap    |-> [c.heap EXCEPT ![c.ref] = p.b],
                                           shaders |-> DictGet(S1, setname),
                                           log     |-> sc.log \o p.log,
                                           exc     |-> NoExc],
                                          dir, sc, c.ref, order))
        Logged(q) ==
            Res(q.b, <<DebugMsg("Parsing per-directory options file")>> \o q.log, q.exc)
        Named(sc, setname, c) ==
            Parsed(sc, IF DictHas(S, setname) THEN S ELSE DictSet(S, setname, <<>>), setname, c,
                   IF InListing(dir, defaultSlothFile)
                   THEN Logged(parseSlothFile(c.heap[c.ref],
                                              FileNamed(dir, defaultSlothFile).cfg))
                   ELSE Ok(c.heap[c.ref]))
    IN  Named(Scan(dir), SetName(dir.relpath, setnameArg, cutextension), CopyOptions(h, SelfRef))

-----------------------------------------------------------------------------
(* getShader.  The content is a sequence of lines; a line is [text, arg]:   *)
(* the fixed text the code writes and the computed text that follows it.    *)

Line(text, arg) == [text |-> text, arg |-> arg]

BlankLine == Line("", <<>>)

rQuake3 == <<"q", "u", "a", "k", "e", "3">>

rDaemon == <<"d", "a", "e", "m", "o", "n">>

rXreal == defaultRenderer

\* " " * n
Spaces(n) == [i \in 1..n |-> " "]

\* "-" * n
Dashes(n) == [i \in 1..n |-> "-"]

Max(a, b) == IF a >= b THEN a ELSE b

\* n as a run of exactly w digits (n < 10^w)
RECURSIVE Padded(_, _)
Padded(n, w) ==
    IF w = 0 THEN <<>> ELSE Padded(n \div 10, w - 1) \o <<Digits[(n % 10) + 1]>>

\* "%.2f" % v, for v >= 0 in hundredths
Fmt2(v) == IntToStr(v \div 100) \o <<".">> \o Padded(v % 100, 2)

\* "%.3f" % v, for v >= 0 in thousandths
Fmt3(v) == IntToStr(v \div 1000) \o <<".">> \o Padded(v % 1000, 3)

\* c / 0xff for a color channel, in thousandths
Channel(c) == (2000 * c + 255) \div 510

\* __radToAdd of one channel, in thousandths, for the exponents 1.0 and 2.0;
\* other exponents give the channel as it is
radToAdd(b, c) ==
    IF b.radToAddExp = 200 THEN (2000 * c * c + 65025) \div 130050 ELSE Channel(c)

ThreeFloats(r, g, b) == Fmt3(r) \o <<" ">> \o Fmt3(g) \o <<" ">> \o Fmt3(b)

\* The lines of one keyword
KeywordLines(key, value) ==
    IF value.none THEN <<Line("\t", key)>>
    ELSE LET vals == SortedStrs(value.vals)
         IN  [i \in DOMAIN vals |->
                Line("\t", key \o Spaces(Max(1, 20 - Len(key))) \o vals[i])]

RECURSIVE KeywordBlock(_, _)
KeywordBlock(kw, keys) ==
    IF keys = <<>> THEN <<>>
    ELSE KeywordLines(Head(keys), DictGet(kw, Head(keys))) \o KeywordBlock(kw, Tail(keys))

\* "\t{\n" whether or not a stage is open
OpenAlways(e) ==
    [e EXCEPT !.content = Append(@, Line("\t{", <<>>)), !.in_stage = TRUE]

\* "\t{\n" unless a stage is open: e is [content, stage_keys, in_stage]
OpenStage(e) ==
    IF e.in_stage THEN e
    ELSE [e EXCEPT !.content = Append(@, Line("\t{", <<>>)), !.in_stage = TRUE]

Emit(e, line) == [e EXCEPT !.content = Append(@, line)]

EmitAll(e, lines) == [e EXCEPT !.content = @ \o lines]

\* "preview image" and "keywords"
BlockHead(setname, shadername, shader, b, meta) ==
    LET path    == shader.relpath \o <<"/">>
        preview == IF shader.preview # None THEN shader.preview ELSE shader.diffuse
        open    == <<BlankLine, Line("", setname \o <<"/">> \o shadername), Line("{", <<>>)>>
        image   == IF preview = None THEN <<>>
                   ELSE <<Line("\tqer_editorImage     ", path \o preview)>>
                        \o (IF meta.diffuseAlpha /\ b.editorOpacity < 100
                            THEN <<Line("\tqer_trans           ", Fmt2(b.editorOpacity))>>
                            ELSE <<>>)
                        \o <<BlankLine>>
        words   == IF "keywords" \in DOMAIN shader /\ shader.keywords # <<>>
                   THEN KeywordBlock(shader.keywords, SortedStrs(DictKeys(shader.keywords)))
                        \o <<BlankLine>>
                   ELSE <<>>
    IN  open \o image \o words

\* "surface light"
SurfaceLight(shader, meta) ==
    LET path == shader.relpath \o <<"/">>
    IN  IF "lightIntensity" \in DOMAIN meta /\ meta.lightIntensity > 0
        THEN <<Line("\tq3map_surfacelight  ", IntToStr(meta.lightIntensity))>>
             \o (IF "lightColor" \in DOMAIN meta
                 THEN <<Line("\tq3map_lightRGB      ",
                             ThreeFloats(Channel(meta.lightColor.r), Channel(meta.lightColor.g),
                                         Channel(meta.lightColor.b)))>>
                 ELSE IF "additionAverage" \in DOMAIN meta
                 THEN <<Line("\tq3map_lightRGB      ",
                             ThreeFloats(meta.additionAverage[1], meta.additionAverage[2],
                                         meta.additionAverage[3]))>>
                 ELSE IF shader.addition # None
                 THEN <<Line("\tq3map_lightImage    ", path \o shader.addition)>>
                 ELSE IF shader.diffuse # None
                 THEN <<Line("\tq3map_lightImage    ", path \o shader.diffuse)>>
                 ELSE <<Line("\tq3map_lightRGB      1.000 1.000 1.000", <<>>)>>)
             \o <<BlankLine>>
        ELSE <<>>

\* The alpha directive of a diffuse map with alpha
AlphaDirective(b, meta) ==
    IF b.alphaTest.kind = "str" /\ b.alphaTest.s # <<>>
    THEN Line("\t\talphaFunc ", b.alphaTest.s)
    ELSE IF b.alphaTest.kind = "float" /\ b.alphaTest.f # 0
    THEN Line("\t\talphaTest ", Fmt2(b.alphaTest.f))
    ELSE IF meta.diffuseAlphaBin THEN Line("\t\talphaFunc GE128", <<>>)
    ELSE Line("\t\tblend     blend", <<>>)

\* "diffuse map"
DiffuseStage(e, shader, b, meta) ==
    LET path == shader.relpath \o <<"/">>
        e1   == IF b.renderer = rDaemon
                THEN Emit(OpenStage(e), Line("\t\tdiffuseMap      ", path \o shader.diffuse))
                ELSE e
        e2   == IF b.renderer # rDaemon
                THEN EmitAll(e1, <<Line("\t{", <<>>), Line("\t\tmap       ", path \o shader.diffuse)>>
                                 \o (IF b.renderer # rQuake3
                                     THEN <<Line("\t\tstage     diffuseMap", <<>>)>>
                                     ELSE <<>>))
                ELSE e1
        e3   == [e2 EXCEPT !.stage_keys = Append(@, AlphaDirective(b, meta))]
    IN  IF shader.diffuse = None THEN e
        ELSE IF meta.diffuseAlpha
        THEN IF b.renderer # rDaemon
             THEN Emit(EmitAll(e3, e3.stage_keys), Line("\t}", <<>>))
             ELSE e3
        ELSE IF b.renderer = rXreal
        THEN Emit(e1, Line("\tdiffuseMap          ", path \o shader.diffuse))
        ELSE IF b.renderer = rQuake3
        THEN EmitAll(e1, <<Line("\t{", <<>>), Line("\t\tmap   ", path \o shader.diffuse),
                           Line("\t}", <<>>)>>)
        ELSE e1

\* A map line inside the daemon stage
DaemonMap(e, b, map, text, path) ==
    IF map # None /\ b.renderer = rDaemon THEN Emit(OpenStage(e), Line(text, path \o map))
    ELSE e

\* "normal & height map", "physical map", "specular map"
OtherMaps(e, shader, b) ==
    LET path   == shader.relpath \o <<"/">>
        height == shader.height # None /\ b.heightNormalsMod > 0
        e1 == IF shader.normal # None /\ b.renderer = rXreal
              THEN IF height
                   THEN Emit(e, Line("\tnormalMap           addnormals",
                                     path \o shader.normal \o <<" ">> \o path \o shader.height
                                     \o <<" ">> \o Fmt2(b.heightNormalsMod)))
                   ELSE Emit(e, Line("\tnormalMap           ", path \o shader.normal))
              ELSE DaemonMap(e, b, shader.normal, "\t\tnormalMap       ", path)
        e2 == IF shader.normal = None /\ height /\ b.renderer = rXreal
              THEN Emit(e1, Line("\tnormalMap           heightmap",
                                 path \o shader.height \o <<" ">> \o Fmt2(b.heightNormalsMod)))
              ELSE e1
        e3 == DaemonMap(e2, b, shader.normalheight, "\t\tnormalHeightMap       ", path)
        e4 == DaemonMap(e3, b, shader.height, "\t\theightMap       ", path)
        e5 == DaemonMap(e4, b, shader.physical, "\t\tphysicalMap     ", path)
    IN  IF shader.specular # None /\ b.renderer = rXreal
        THEN Emit(e5, Line("\tspecularMap         ", path \o shader.specular))
        ELSE DaemonMap(e5, b, shader.specular, "\t\tspecularMap     ", path)

\* "addition map"
AdditionStage(e, shader, b, meta) ==
    LET path == shader.relpath \o <<"/">>
        has_light_color ==
            /\ "lightColor" \in DOMAIN meta
            /\ meta.lightColor.r + meta.lightColor.g + meta.lightColor.b < 765
        e1 == IF b.renderer = rDaemon /\ ~has_light_color
              THEN Emit(OpenStage(e), Line("\t\tglowMap         ", path \o shader.addition))
              ELSE IF b.renderer = rXreal /\ ~has_light_color
              THEN Emit(e, Line("\tglowMap             ", path \o shader.addition))
              ELSE LET closed == IF e.in_stage
                                 THEN Emit(EmitAll(e, e.stage_keys), Line("\t}", <<>>))
                                 ELSE e
                   IN  [closed EXCEPT
                          !.stage_keys = @ \o <<Line("\t{", <<>>),
                                                Line("\t\tmap   ", path \o shader.addition),
                                                Line("\t\tblend add", <<>>)>>,
                          !.in_stage = TRUE]
        e2 == IF has_light_color
              THEN [e1 EXCEPT !.stage_keys = @ \o
                      <<Line("\t\tred   ", Fmt3(radToAdd(b, meta.lightColor.r))),
                        Line("\t\tgreen ", Fmt3(radToAdd(b, meta.lightColor.g))),
                        Line("\t\tblue  ", Fmt3(radToAdd(b, meta.lightColor.b)))>>]
              ELSE e1
    IN  IF shader.addition = None THEN e
        ELSE [EmitAll(e2, e2.stage_keys) EXCEPT !.stage_keys = <<>>]

\* One pass of "for shadername in names": gives [content, in_stage]
ShaderBlock(content, in_stage, setname, shadername, shader, h) ==
    LET Closed(e) == [content |-> Append(e.content, Line("}", <<>>)), in_stage |-> FALSE]
        Staged(e) ==
            IF e.in_stage
            THEN Closed(Emit(IF h[shader.options].renderer = rDaemon
                             THEN EmitAll(e, e.stage_keys) ELSE e,
                             Line("\t}", <<>>)))
            ELSE Closed(e)
    IN  Staged(AdditionStage(
                   OtherMaps(
                       DiffuseStage(
                           [content    |-> content
                                           \o BlockHead(setname, shadername, shader,
                                                        h[shader.options], h[shader.meta])
                                           \o SurfaceLight(shader, h[shader.meta]),
                            stage_keys |-> <<>>,
                            in_stage   |-> in_stage],
                           shader, h[shader.options], h[shader.meta]),
                       shader, h[shader.options]),
                   shader, h[shader.options], h[shader.meta]))

\* "for shadername in names": g is [content, in_stage]
RECURSIVE ShaderBlocks(_, _, _, _, _)
ShaderBlocks(g, setname, shaders, names, h) ==
    IF names = <<>> THEN g
    ELSE ShaderBlocks(ShaderBlock(g.content, g.in_stage, setname, Head(names),
                                  DictGet(shaders, Head(names)), h),
                      setname, shaders, Tail(names), h)

Banner(setname) ==
    <<BlankLine, Line("// ", Dashes(Len(setname))), Line("// ", setname),
      Line("// ", Dashes(Len(setname)))>>

\* One pass of "for setname in setnames": g is [content, shadername], the
\* content so far and the value of the variable shadername
SetBlocks(g, setname, shaders, h) ==
    IF g.shadername # None
    THEN IF DictHas(shaders, g.shadername)
         THEN [content    |-> ShaderBlocks([content |-> g.content, in_stage |-> FALSE],
                                           setname, shaders, <<g.shadername>>, h).content,
               shadername |-> g.shadername]
         ELSE g
    ELSE LET Each(names) ==
                 [content    |-> ShaderBlocks([content |-> g.content \o Banner(setname),
                                               in_stage |-> FALSE],
                                              setname, shaders, names, h).content,
                  shadername |-> IF names = <<>> THEN None ELSE names[Len(names)]]
         IN  Each(SortedStrs(DictKeys(shaders)))

RECURSIVE AllSetBlocks(_, _, _, _)
AllSetBlocks(g, S, setnames, h) ==
    IF setnames = <<>> THEN g
    ELSE AllSetBlocks(SetBlocks(g, Head(setnames), DictGet(S, Head(setnames)), h),
                      S, Tail(setnames), h)

HeaderLines(lines) ==
    [i \in DOMAIN lines |->
        IF Len(lines[i]) >= 2 /\ SubSeq(lines[i], 1, 2) = <<"/", "/">>
        THEN Line("", lines[i])
        ELSE Line("// ", lines[i])]

\* A returned value: None, or the content
RetNone == [none |-> TRUE, content |-> <<>>]

RetContent(content) == [none |-> FALSE, content |-> content]

\* getShader: gives [ret, log]
getShader(S, h, head, setname, shadername) ==
    IF setname # None /\ ~DictHas(S, setname)
    THEN [ret |-> RetNone, log |-> <<ErrorMsg("Unknown set.")>>]
    ELSE LET setnames == IF setname # None THEN <<setname>>
                         ELSE [i \in DOMAIN S |-> S[i].k]
         IN  [ret |-> RetContent(AllSetBlocks([content |-> HeaderLines(head),
                                               shadername |-> shadername],
                                              S, setnames, h).content),
              log |-> <<>>]

-----------------------------------------------------------------------------
(* The generator's operations *)

NoCall == [op |-> "init", path |-> None, setname |-> None, shadername |-> None, arg |-> None]

\* ShaderGenerator()
Init ==
    /\ sets = <<>>
    /\ heap = <<InitOptions>>
    /\ header = <<>>
    /\ verbosity = 0
    /\ stderr = <<>>
    /\ call = NoCall
    /\ ret = RetNone
    /\ exc = NoExc
    /\ ngen = 0

\* generateSet(path, setname, cutextension), the set of diffuse maps being
\* iterated in the given order; an exception that leaves it ends the run
GenerateSet(dir, setname, cutextension, order) ==
    /\ exc = NoExc
    /\ order \in Orderings(Scan(dir).mapsbytype.diffuse)
    /\ LET Returns(r) ==
               /\ sets' = r.sets
               /\ heap' = r.heap
               /\ stderr' = stderr \o Printed(r.log, verbosity)
               /\ exc' = r.exc
       IN  Returns(generateSet(sets, heap, dir, setname, cutextension, order))
    /\ call' = [op |-> "generateSet", path |-> dir, setname |-> setname, shadername |-> None,
                arg |-> None]
    /\ ret' = RetNone
    /\ ngen' = ngen + 1
    /\ UNCHANGED <<header, verbosity>>

\* getShader(setname, shadername)
GetShader(setname, shadername) ==
    /\ exc = NoExc
    /\ LET Returns(r) ==
               /\ ret' = r.ret
               /\ stderr' = stderr \o Printed(r.log, verbosity)
       IN  Returns(getShader(sets, heap, header, setname, shadername))
    /\ call' = [op |-> "getShader", path |-> None, setname |-> setname,
                 shadername |-> shadername, arg |-> None]
    /\ UNCHANGED <<sets, heap, header, verbosity, exc, ngen>>

\* clearSets()
ClearSets ==
    /\ exc = NoExc
    /\ sets' = <<>>
    /\ stderr' = stderr \o Printed(<<VerboseMsg("Cleared all sets.")>>, verbosity)
    /\ call' = [op |-> "clearSets", path |-> None, setname |-> None, shadername |-> None,
                arg |-> None]
    /\ ret' = RetNone
    /\ UNCHANGED <<heap, header, verbosity, exc, ngen>>

-----------------------------------------------------------------------------
(* Inputs *)

extTga == <<".", "t", "g", "a">>

\* An opaque RGB image with some non-gray color
PlainImage ==
    [ok |-> TRUE, mode |-> "RGB", alphaMin |-> 255, alphaBin |-> FALSE,
     transparency |-> FALSE, colors |-> "color", average |-> <<500, 250, 0>>]

EmptyConfig == [status |-> "ok", sections |-> <<>>]

ImageFile(name, img) == [name |-> name, img |-> img, cfg |-> EmptyConfig]

\* A file that is no image
OptionFile(name, cfg) == [name |-> name, img |-> [PlainImage EXCEPT !.ok = FALSE], cfg |-> cfg]

\* The sequences without repetition of at most n elements of S
Listings(S, n) ==
    UNION {{l \in [1..k -> S] : \A i, j \in 1..k : i # j => l[i] # l[j]} : k \in 0..n}

-----------------------------------------------------------------------------
(* Emission of several sets: directories of plain diffuse maps, generated   *)
(* into sets named after the directory or by the caller, then emitted.      *)

MaxGen == 2

MaxStderr == 2

sfxSrc == <<"_", "s", "r", "c">>

EmitRelpaths == {<<"t", "/", "x">>, <<"t", "/", "y">> \o sfxSrc}

EmitFiles ==
    {ImageFile(<<"a">> \o suffixes.diffuse \o extTga, PlainImage),
     ImageFile(<<"b">> \o suffixes.diffuse \o extTga, PlainImage)}

EmitDirs == {[relpath |-> rp, files |-> l] : rp \in EmitRelpaths, l \in Listings(EmitFiles, 2)}

\* (setname, cutextension) as __main__ may pass them
EmitArgs == {<<None, None>>, <<None, sfxSrc>>, <<(<<"t", "/", "m">>), None>>}

EmitGenerate ==
    /\ ngen < MaxGen
    /\ \E dir \in EmitDirs, a \in EmitArgs :
         \E order \in Orderings(Scan(dir).mapsbytype.diffuse) :
            GenerateSet(dir, a[1], a[2], order)

EmitGetShader ==
    /\ Len(stderr) < MaxStderr
    /\ \E setname \in {None, <<"t", "/", "x">>, <<"t", "/", "z">>}, shadername \in {None, <<"a">>} :
         GetShader(setname, shadername)

NextEmit == EmitGenerate \/ EmitGetShader \/ ClearSets

SpecEmit == Init /\ [][NextEmit]_vars

\* The blocks of every shader of one set, in sorted name order, after its banner
WholeSet(setname, shaders) ==
    ShaderBlocks([content |-> Banner(setname), in_stage |-> FALSE], setname, shaders,
                 SortedStrs(DictKeys(shaders)), heap).content

RECURSIVE WholeSets(_)
WholeSets(S) ==
    IF S = <<>> THEN <<>> ELSE WholeSet(Head(S).k, Head(S).v) \o WholeSets(Tail(S))

\* C1: getShader() without a set name and without a shader name, on two or
\* more sets, returns the header, then for every set its banner and the block
\* of each of its shaders in sorted name order, none left out.
C1_EverySetEmitted ==
    (/\ call.op = "getShader" /\ call.setname = None /\ call.shadername = None
     /\ Len(sets) >= 2)
    => ret = RetContent(HeaderLines(header) \o WholeSets(sets))

-----------------------------------------------------------------------------
(* Map association: one directory whose listing is drawn from a pool of     *)
(* maps with nested name prefixes, a stem without prefix, an unsupported    *)
(* format and a directory options file that configures one predefined       *)
(* light intensity.                                                         *)

MaxFiles == 4

extPsd == <<".", "p", "s", "d">>

PredefConfig ==
    [status   |-> "ok",
     sections |-> <<[name  |-> "options",
                     items |-> <<[key |-> "predefLights", val |-> Value(<<"1">>)]>>]>>]

AssocFiles ==
    {ImageFile(<<"a">> \o suffixes.diffuse \o extTga, PlainImage),
     ImageFile(<<"a", "b">> \o suffixes.diffuse \o extTga, PlainImage),
     ImageFile(<<"a">> \o suffixes.normal \o extTga, PlainImage),
     ImageFile(<<"a", "b">> \o suffixes.normal \o extTga, PlainImage),
     ImageFile(<<"a", "b">> \o suffixes.normal \o extPsd, PlainImage),
     ImageFile(<<"b">> \o suffixes.normal \o extTga, PlainImage),
     ImageFile(suffixes.normal \o extTga, PlainImage),
     ImageFile(<<"a">> \o suffixes.addition \o extTga, PlainImage),
     OptionFile(defaultSlothFile, PredefConfig)}

AssocDirs == {[relpath |-> <<"t", "/", "x">>, files |-> l] : l \in Listings(AssocFiles, MaxFiles)}

AssocGenerate ==
    /\ ngen = 0
    /\ \E dir \in AssocDirs :
         \E order \in Orderings(Scan(dir).mapsbytype.diffuse) :
            GenerateSet(dir, None, None, order)

NextAssoc == AssocGenerate

SpecAssoc == Init /\ [][NextAssoc]_vars

\* The records of all sets, each with the name it is stored under
Records ==
    UNION {{[setname |-> sets[i].k, key |-> sets[i].v[j].k, rec |-> sets[i].v[j].v] :
              j \in DOMAIN sets[i].v} : i \in DOMAIN sets}

\* The stems of a directory's files that are candidates for a map type,
\* whatever the order of the listing
Candidates(dir, t) ==
    {SplitExt(f.name).root :
       f \in {g \in Range(dir.files) :
                /\ LowerStr(SplitExt(g.name).ext) \notin extBlackList
                /\ SplitExt(g.name).ext # slothFileExt
                /\ EndsWith(SplitExt(g.name).root, suffixes[t])}}

\* The lengths of the non-empty prefixes of a shader name that, with the
\* type's suffix, are a candidate
MatchingPrefixes(name, t, dir) ==
    {k \in 1..Len(name) : (SubSeq(name, 1, k) \o suffixes[t]) \in Candidates(dir, t)}

LongestMatch(name, t, dir) ==
    IF MatchingPrefixes(name, t, dir) = {} THEN None
    ELSE SubSeq(name, 1, CHOOSE k \in MatchingPrefixes(name, t, dir) :
                            \A j \in MatchingPrefixes(name, t, dir) : j <= k)
         \o suffixes[t]

\* C2: every shader that has got its maps has, for every non-diffuse type,
\* the candidate made of the longest non-empty prefix of its name and the
\* type's suffix, and None exactly when no such prefix gives a candidate; the
\* candidates are a set, so the order of the listing has no part in it.  (The
\* record light expansion stores as <name>_off has had its addition map taken
\* away on purpose and is not judged on that type.)
C2_LongestPrefixMap ==
    \A x \in Records :
        \A t \in Range(MapTypes) \ {"diffuse"} :
            t \in DOMAIN x.rec =>
                \/ t = "addition" /\ x.key = OffName(x.rec.name)
                \/ x.rec[t] = LongestMatch(x.rec.name, t, x.rec.abspath)

\* A shader "ab" with normal candidates for both of its prefixes got the longer
C2_Witness ==
    \E x \in Records :
        /\ x.rec.name = <<"a", "b">>
        /\ "normal" \in DOMAIN x.rec
        /\ {<<"a">> \o suffixes.normal, <<"a", "b">> \o suffixes.normal}
               \subseteq Candidates(x.rec.abspath, "normal")
        /\ x.rec.normal = <<"a", "b">> \o suffixes.normal

-----------------------------------------------------------------------------
(* Option precedence: a directory of shaders a, ab and b whose directory    *)
(* options file and per-name options files a.sloth and ab.sloth each are    *)
(* absent, switch alphaShadows on or off, or set another option.            *)

OneOption(key, text) ==
    [status   |-> "ok",
     sections |-> <<[name |-> "options", items |-> <<[key |-> key, val |-> Value(text)]>>]>>]

OptContents ==
    {OneOption("alphaShadows", <<"o", "n">>),
     OneOption("alphaShadows", <<"o", "f", "f">>),
     OneOption("editorOpacity", <<"0", ".", "5">>)}

\* The listings with the file or without it
Optional(filename, contents) == {<<>>} \cup {<<OptionFile(filename, c)>> : c \in contents}

OptDirs ==
    {[relpath |-> <<"t", "/", "x">>, files |-> da \o dab \o db \o o \o oa \o oab] :
        da  \in {<<ImageFile(<<"a">> \o suffixes.diffuse \o extTga, PlainImage)>>, <<>>},
        dab \in {<<ImageFile(<<"a", "b">> \o suffixes.diffuse \o extTga, PlainImage)>>, <<>>},
        db  \in {<<ImageFile(<<"b">> \o suffixes.diffuse \o extTga, PlainImage)>>, <<>>},
        o   \in Optional(defaultSlothFile, OptContents),
        oa  \in Optional(<<"a">> \o slothFileExt, OptContents),
        oab \in Optional(<<"a", "b">> \o slothFileExt, OptContents)}

OptGenerate ==
    /\ ngen = 0
    /\ \E dir \in OptDirs :
         \E order \in Orderings(Scan(dir).mapsbytype.diffuse) :
            GenerateSet(dir, None, None, order)

NextOpt == OptGenerate

SpecOpt == Init /\ [][NextOpt]_vars

\* The alphaShadows items of a directory's file, none if the file is not there
ShadowItems(dir, filename) ==
    IF ~InListing(dir, filename) THEN {}
    ELSE UNION {{it \in Range(sec.items) : sec.name = "options" /\ it.key = "alphaShadows"} :
                  sec \in Range(FileNamed(dir, filename).cfg.sections)}

\* What the file says alphaShadows is
ShadowsSaid(dir, filename) ==
    ParseBool((CHOOSE it \in ShadowItems(dir, filename) : TRUE).val.s).v

\* The lengths of the prefixes of a shader name whose option file says
\* what alphaShadows is
SayingPrefixes(name, dir) ==
    {k \in 1..Len(name) : ShadowItems(dir, SubSeq(name, 1, k) \o slothFileExt) # {}}

\* alphaShadows by precedence: the file of the longest name prefix that says
\* it, the exact name being the longest; else the directory's file; else the
\* default
MostSpecific(name, dir) ==
    IF SayingPrefixes(name, dir) # {}
    THEN ShadowsSaid(dir, SubSeq(name, 1, CHOOSE k \in SayingPrefixes(name, dir) :
                                             \A j \in SayingPrefixes(name, dir) : j <= k)
                          \o slothFileExt)
    ELSE IF ShadowItems(dir, defaultSlothFile) # {} THEN ShadowsSaid(dir, defaultSlothFile)
    ELSE InitOptions.alphaShadows

\* C3: a shader's alphaShadows is what the most specific option file that
\* sets it says: the exact-name file before shorter prefixes, these before the
\* directory's file, and the generator's default when no file sets it.
C3_ScalarPrecedence ==
    \A x \in Records :
        heap[x.rec.options].alphaShadows = MostSpecific(x.rec.name, x.rec.abspath)

\* The directory's file says off and ab.sloth says on: ab has it on, its
\* sibling b, with no file of its name, has it off
C3_Witness ==
    \E x, y \in Records :
        /\ x.rec.name = <<"a", "b">> /\ y.rec.name = <<"b">>
        /\ x.rec.abspath = y.rec.abspath
        /\ InitOptions.alphaShadows
        /\ ShadowItems(x.rec.abspath, defaultSlothFile) # {}
        /\ ~ShadowsSaid(x.rec.abspath, defaultSlothFile)
        /\ ShadowItems(x.rec.abspath, <<"a", "b">> \o slothFileExt) # {}
        /\ ShadowsSaid(x.rec.abspath, <<"a", "b">> \o slothFileExt)
        /\ heap[x.rec.options].alphaShadows
        /\ ~heap[y.rec.options].alphaShadows

-----------------------------------------------------------------------------
(* Light variants: a directory with shader a and, maybe, shader a_r, their   *)
(* addition maps grayscale, colored or absent, a directory options file    *)
(* that configures light colors, custom and predefined intensities, and an  *)
(* options file for a_r alone.                                              *)

GrayImage == [PlainImage EXCEPT !.mode = "L", !.colors = "gray", !.average = <<300, 300, 300>>]

txtRed == <<"r", ":", "f", "f", "0", "0", "0", "0">>

txtGreen == <<"g", ":", "0", "0", "f", "f", "0", "0">>

ColorItems ==
    {<<>>,
     <<[key |-> "colors", val |-> Value(txtRed)]>>,
     <<[key |-> "colors", val |-> Value(txtRed \o <<" ">> \o txtGreen)]>>}

CustomItems ==
    {<<>>,
     <<[key |-> "customLights", val |-> Value(<<"1">>)]>>,
     <<[key |-> "customLights", val |-> Value(<<"1", " ", "2", " ", "3">>)]>>}

PredefItems ==
    {<<>>,
     <<[key |-> "predefLights", val |-> Value(<<"1">>)]>>,
     <<[key |-> "predefLights", val |-> Value(<<"1", " ", "2", " ", "3", " ", "4">>)]>>}

LightConfigs ==
    {[status |-> "ok", sections |-> <<[name |-> "options", items |-> c \o i \o p]>>] :
        c \in ColorItems, i \in CustomItems, p \in PredefItems}

nameAR == <<"a", "_", "r">>

\* Shader a_r: absent, without an addition map of its own name, or with one
LightShaderAR ==
    {<<>>,
     <<ImageFile(nameAR \o suffixes.diffuse \o extTga, PlainImage)>>,
     <<ImageFile(nameAR \o suffixes.diffuse \o extTga, PlainImage),
       ImageFile(nameAR \o suffixes.addition \o extTga, PlainImage)>>,
     <<ImageFile(nameAR \o suffixes.diffuse \o extTga, PlainImage),
       ImageFile(nameAR \o suffixes.addition \o extTga, GrayImage)>>}

LightDirs ==
    {[relpath |-> <<"t", "/", "x">>,
      files   |-> <<ImageFile(<<"a">> \o suffixes.diffuse \o extTga, PlainImage)>>
                  \o aa \o ar \o <<OptionFile(defaultSlothFile, o)>> \o oar] :
        aa  \in {<<>>,
                 <<ImageFile(<<"a">> \o suffixes.addition \o extTga, PlainImage)>>,
                 <<ImageFile(<<"a">> \o suffixes.addition \o extTga, GrayImage)>>},
        ar  \in LightShaderAR,
        o   \in LightConfigs,
        oar \in Optional(nameAR \o slothFileExt,
                         {OneOption("colors", <<>>), OneOption("addPredefLights", <<"2">>)})}

LightGenerate ==
    /\ ngen = 0
    /\ \E dir \in LightDirs :
         \E order \in Orderings(Scan(dir).mapsbytype.diffuse) :
            GenerateSet(dir, None, None, order)

NextLight == LightGenerate

SpecLight == Init /\ [][NextLight]_vars

\* The shader names a directory gives rise to: one for each diffuse map
Originals(dir) == {RSplitHead(c, suffixes.diffuse) : c \in Candidates(dir, "diffuse")}

Keys == {x.key : x \in Records}

RecordAt(key) == (CHOOSE x \in Records : x.key = key).rec

\* The names of the records that came from shader S
KeysFrom(S) == {x.key : x \in {y \in Records : y.rec.name = S}}

OwnsAddition(S, dir) == LongestMatch(S, "addition", dir) # None

\* Whether the addition map of S is grayscale
GrayAddition(S, dir) ==
    LET img == (CHOOSE f \in Range(dir.files) :
                   SplitExt(f.name).root = LongestMatch(S, "addition", dir)).img
    IN  img.mode \in {"L", "LA"} \/ img.colors = "gray"

\* The option bundle S was created with: the record S has it or, when S has
\* been replaced, its non-glowing record
BundleOf(S) ==
    heap[(IF S \in Keys THEN RecordAt(S) ELSE RecordAt(S \o <<"_", "o", "f", "f">>)).options]

ColorNames(S, dir) ==
    {S \o <<"_">> \o c.k \o <<"_">> \o i.k :
        c \in Range(BundleOf(S).lightColors), i \in Range(BundleOf(S).customLights)}

PredefNames(S, dir) == {S \o <<"_">> \o i.k : i \in Range(BundleOf(S).predefLights)}

\* The names of the records that replace S when it owns an addition map
VariantNames(S, dir) ==
    (IF GrayAddition(S, dir) THEN ColorNames(S, dir) ELSE PredefNames(S, dir))
    \cup {S \o <<"_", "o", "f", "f">>}

GeneratedBy(S, dir) == IF OwnsAddition(S, dir) THEN VariantNames(S, dir) ELSE {S}

\* No other shader of the directory gives rise to a record of the same name
Alone(S, dir) ==
    \A T \in Originals(dir) \ {S} : GeneratedBy(S, dir) \cap GeneratedBy(T, dir) = {}

\* generateSet has returned
Expanded == call.op = "generateSet" /\ exc = NoExc

\* The metadata a variant got from expansion
LightMeta(key) ==
    [k \in DOMAIN heap[RecordAt(key).meta] \cap {"lightColor", "lightIntensity"} |->
        heap[RecordAt(key).meta][k]]

\* The records that came from S are the ones its options ask for, with the
\* metadata of their color and intensity
VariantsAsConfigured(S, dir) ==
    /\ KeysFrom(S) = GeneratedBy(S, dir)
    /\ OwnsAddition(S, dir) =>
         /\ RecordAt(S \o <<"_", "o", "f", "f">>).addition = None
         /\ LightMeta(S \o <<"_", "o", "f", "f">>) = <<>>
         /\ \A key \in VariantNames(S, dir) \ {S \o <<"_", "o", "f", "f">>} :
                RecordAt(key).addition = LongestMatch(S, "addition", dir)
         /\ IF GrayAddition(S, dir)
            THEN \A c \in Range(BundleOf(S).lightColors),
                    i \in Range(BundleOf(S).customLights) :
                    LightMeta(S \o <<"_">> \o c.k \o <<"_">> \o i.k)
                        = [lightColor     |-> [r |-> c.v[1], g |-> c.v[2], b |-> c.v[3]],
                           lightIntensity |-> i.v]
            ELSE \A i \in Range(BundleOf(S).predefLights) :
                    LightMeta(S \o <<"_">> \o i.k) = [lightIntensity |-> i.v]

\* C4: after generateSet, the records that came from a shader S
\* with an addition map are exactly: for a grayscale addition map one
\* S_<color>_<intensity> for every pair of a light color and a custom intensity
\* of S's options, with that color and that intensity as metadata; else one
\* S_<intensity> for every predefined intensity, with the intensity alone; and
\* S_off, without addition map and light metadata.  A shader without addition
\* map stays the one record S.
C4_EveryShaderExpanded ==
    Expanded => \A S \in Originals(call.path) : VariantsAsConfigured(S, call.path)

\* The same holds for every shader S none of whose record names is also the
\* name of a record another shader of the Set gives rise to: C4 fails by the
\* collisions of C19 alone.
C4_VariantRecords ==
    Expanded =>
        \A S \in Originals(call.path) :
            Alone(S, call.path) => VariantsAsConfigured(S, call.path)

\* Shader a with a grayscale addition map, two colors and three custom
\* intensities has become seven records, beside those of shader a_r
C4_Witness ==
    /\ Expanded
    /\ {<<"a">>, nameAR} \subseteq Originals(call.path)
    /\ Alone(<<"a">>, call.path)
    /\ OwnsAddition(<<"a">>, call.path) /\ GrayAddition(<<"a">>, call.path)
    /\ Len(BundleOf(<<"a">>).lightColors) = 2
    /\ Len(BundleOf(<<"a">>).customLights) = 3
    /\ Cardinality(KeysFrom(<<"a">>)) = 7
    /\ Cardinality(Keys) > 7

\* The applicable collections of S's options have no entry to expand by
EmptyCollections(S, dir) ==
    IF GrayAddition(S, dir)
    THEN BundleOf(S).lightColors = <<>> \/ BundleOf(S).customLights = <<>>
    ELSE BundleOf(S).predefLights = <<>>

\* The record still has the name of its shader and is no light variant
Retained(S) ==
    /\ KeysFrom(S) = {S}
    /\ LightMeta(S) = <<>>

DirBundle(dir) ==
    IF InListing(dir, defaultSlothFile)
    THEN parseSlothFile(InitOptions, FileNamed(dir, defaultSlothFile).cfg).b
    ELSE InitOptions

\* The options of one shader of the directory, from the files of its name
OwnBundle(name, dir) ==
    ParsePrefixFiles(Ok(DirBundle(dir)), dir, Scan(dir).slothfiles, name, 1).b

\* C6: the generator's default bundle is never changed; after generateSet the
\* directory's bundle is the defaults with the directory's file applied,
\* whatever files the shaders have; every record's bundle is what the files of
\* its own shader make of the directory's bundle, whatever files and variants
\* its siblings have; and no two records, variants of one shader included,
\* hold the same bundle or the same metadata bag, nor the default or the
\* directory's bundle.
C6_BundlesIsolated ==
    /\ heap[SelfRef] = InitOptions
    /\ Expanded =>
         /\ heap[SelfRef + 1] = DirBundle(call.path)
         /\ \A x \in Records :
              /\ heap[x.rec.options] = OwnBundle(x.rec.name, call.path)
              /\ x.rec.options \notin {SelfRef, SelfRef + 1}
              /\ \A y \in Records :
                   /\ x.rec.options # y.rec.meta
                   /\ x.key # y.key =>
                        x.rec.options # y.rec.options /\ x.rec.meta # y.rec.meta

\* The directory's file configures lights, a_r's own file changes a_r's
\* options, and a has become several variants with metadata of their own
C6_Witness ==
    /\ Expanded
    /\ DirBundle(call.path) # InitOptions
    /\ \E x, y \in Records :
         /\ x.rec.name = <<"a">> /\ y.rec.name = nameAR
         /\ heap[x.rec.options] # heap[y.rec.options]
    /\ \E x, y \in Records :
         /\ x.rec.name = <<"a">> /\ y.rec.name = <<"a">>
         /\ heap[x.rec.meta] # heap[y.rec.meta]
         /\ LightMeta(x.key) # <<>> /\ LightMeta(y.key) # <<>>

-----------------------------------------------------------------------------
(* Keywords: a directory with the one shader a, its diffuse map opaque or   *)
(* transparent, whose directory options file and own options file each     *)
(* may give the key surfaceparm, with or without a value, in their          *)
(* keywords, addKeywords and delKeywords sections.                          *)

AlphaImage == [PlainImage EXCEPT !.mode = "RGBA", !.alphaMin = 0, !.alphaBin = TRUE]

kwX == <<"x">>

\* The section with surfaceparm given one of the values, or no section
KwSection(name, values) ==
    {<<>>} \cup {<<[name |-> name, items |-> <<[key |-> kwSurfaceparm, val |-> v]>>]>> :
                   v \in values}

KwConfigs ==
    {[status |-> "ok", sections |-> k \o a \o d] :
        k \in KwSection("keywords", {NoValue, Value(kwTrans), Value(kwX)}),
        a \in KwSection("addKeywords", {NoValue, Value(kwX)}),
        d \in KwSection("delKeywords", {NoValue, Value(kwX)})}

KwDirs ==
    {[relpath |-> <<"t", "/", "x">>,
      files   |-> <<ImageFile(<<"a">> \o suffixes.diffuse \o extTga, img),
                    OptionFile(defaultSlothFile, o),
                    OptionFile(<<"a">> \o slothFileExt, oa)>>] :
        img \in {PlainImage, AlphaImage}, o \in KwConfigs, oa \in KwConfigs}

KwGenerate ==
    /\ ngen = 0
    /\ \E dir \in KwDirs :
         \E order \in Orderings(Scan(dir).mapsbytype.diffuse) :
            GenerateSet(dir, None, None, order)

NextKw == KwGenerate

SpecKw == Init /\ [][NextKw]_vars

\* The option files that apply to a shader, by rank: 0 is the directory's
\* file, k > 0 the file named by the first k characters of the shader's name
FileOfRank(S, k) == IF k = 0 THEN defaultSlothFile ELSE SubSeq(S, 1, k) \o slothFileExt

\* The items of a file's section that give key K, none if the file is not there
ItemsIn(dir, filename, section, K) ==
    IF ~InListing(dir, filename) THEN {}
    ELSE UNION {{it \in Range(sec.items) : sec.name = section /\ it.key = K} :
                  sec \in Range(FileNamed(dir, filename).cfg.sections)}

\* The ranks of the files that give K in the section
SayingRanks(S, dir, section, K) ==
    {k \in 0..Len(S) : ItemsIn(dir, FileOfRank(S, k), section, K) # {}}

\* What an item gives: a set of values, or the key alone
EntryOf(item) ==
    IF item.val.none \/ item.val.s = <<>> THEN KwNone
    ELSE KwSet(Range(SplitBlank(item.val.s)))

\* What the file of rank k gives for K in the section
SaidAt(S, dir, section, K, k) ==
    EntryOf(CHOOSE it \in ItemsIn(dir, FileOfRank(S, k), section, K) : TRUE)

\* What the most specific file that gives K in the section gives for it
MostSpecificEntry(S, dir, section, K) ==
    SaidAt(S, dir, section, K,
           CHOOSE k \in SayingRanks(S, dir, section, K) :
               \A j \in SayingRanks(S, dir, section, K) : j <= k)

Generated == call.op = "generateSet"

\* The final keyword table of shader S has the entry for K
FinalEntryIs(S, K, entry) ==
    /\ exc = NoExc
    /\ S \in Keys
    /\ DictHas(RecordAt(S).keywords, K)
    /\ DictGet(RecordAt(S).keywords, K) = entry

\* C7: when option files of a shader give K in their [keywords] sections (and
\* none gives it under addKeywords or delKeywords), the shader's resolved
\* options and its final keyword table have for K exactly what the most
\* specific of these files gives, whatever less specific files and the
\* diffuse map's transparency would give.
C7_KeywordsOverwrite ==
    Generated =>
        \A S \in Originals(call.path) :
            (/\ SayingRanks(S, call.path, "keywords", kwSurfaceparm) # {}
             /\ SayingRanks(S, call.path, "addKeywords", kwSurfaceparm) = {}
             /\ SayingRanks(S, call.path, "delKeywords", kwSurfaceparm) = {})
            => /\ FinalEntryIs(S, kwSurfaceparm,
                               MostSpecificEntry(S, call.path, "keywords", kwSurfaceparm))
               /\ DictGet(heap[RecordAt(S).options].keywords, kwSurfaceparm)
                      = MostSpecificEntry(S, call.path, "keywords", kwSurfaceparm)

\* The keyword table of shader S before addKeywords and delKeywords are
\* applied: what the diffuse map and the name give, overlaid with what the one
\* file that gives K under [keywords], if there is one, gives
PriorTable(S, dir, K) ==
    OverlayKeywords(
        DerivedKeywords(S, heap[RecordAt(S).options], heap[RecordAt(S).meta]),
        IF SayingRanks(S, dir, "keywords", K) = {} THEN <<>>
        ELSE <<[k |-> K, v |-> MostSpecificEntry(S, dir, "keywords", K)]>>)

\* What the files that give K in the section give together, in any order
AllSaid(S, dir, section, K) ==
    IF \A k \in SayingRanks(S, dir, section, K) : SaidAt(S, dir, section, K, k).none
    THEN KwNone
    ELSE KwSet(UNION {SaidAt(S, dir, section, K, k).vals :
                        k \in SayingRanks(S, dir, section, K)})

\* The entry that adding to a table gives: the union, the key alone when
\* there is no value on either side
Added(table, K, entry) ==
    IF ~DictHas(table, K) THEN entry
    ELSE IF DictGet(table, K).none /\ entry.none THEN KwNone
    ELSE KwSet(DictGet(table, K).vals \cup entry.vals)

\* C8: when option files of a shader give K under addKeywords (none gives it
\* under delKeywords, at most one under keywords), then whatever K was before
\* in the table (absent, a set of values, the key alone) and whether the
\* entries have values or not, the final table has for K the union of what
\* was there and what the files add, the same for every order of the files.
C8_AddIsUnion ==
    Generated =>
        \A S \in Originals(call.path) :
            (/\ SayingRanks(S, call.path, "addKeywords", kwSurfaceparm) # {}
             /\ SayingRanks(S, call.path, "delKeywords", kwSurfaceparm) = {}
             /\ Cardinality(SayingRanks(S, call.path, "keywords", kwSurfaceparm)) <= 1)
            => /\ exc = NoExc
               /\ FinalEntryIs(S, kwSurfaceparm,
                               Added(PriorTable(S, call.path, kwSurfaceparm), kwSurfaceparm,
                                     AllSaid(S, call.path, "addKeywords", kwSurfaceparm)))

\* What deleting from a table must leave for K
Deleted(final, table, K, entry) ==
    IF entry.none THEN ~DictHas(final, K)
    ELSE IF DictGet(table, K).none
    THEN ~DictHas(final, K) \/ DictGet(final, K) = KwNone
    ELSE IF DictGet(table, K).vals \ entry.vals = {} THEN ~DictHas(final, K)
    ELSE DictHas(final, K) /\ DictGet(final, K) = KwSet(DictGet(table, K).vals \ entry.vals)

\* C9: when one option file of a shader gives K under delKeywords (none gives
\* it under addKeywords, at most one under keywords) and K is in the table, a
\* set of values or the key alone: without a value the entry removes K; with
\* values it removes these values from K's entry and no other, and K when
\* nothing remains; and no key of the final table has an empty set of values.
C9_DeleteExact ==
    Generated =>
        \A S \in Originals(call.path) :
            (/\ Cardinality(SayingRanks(S, call.path, "delKeywords", kwSurfaceparm)) = 1
             /\ SayingRanks(S, call.path, "addKeywords", kwSurfaceparm) = {}
             /\ Cardinality(SayingRanks(S, call.path, "keywords", kwSurfaceparm)) <= 1)
            => /\ exc = NoExc
               /\ S \in Keys
               /\ DictHas(PriorTable(S, call.path, kwSurfaceparm), kwSurfaceparm) =>
                     Deleted(RecordAt(S).keywords, PriorTable(S, call.path, kwSurfaceparm),
                             kwSurfaceparm, AllSaid(S, call.path, "delKeywords", kwSurfaceparm))
               /\ \A i \in DOMAIN RecordAt(S).keywords :
                     RecordAt(S).keywords[i].v.none \/ RecordAt(S).keywords[i].v.vals # {}

\* Value v of K is in the final keyword table of shader S
InFinal(S, K, v) ==
    /\ S \in Keys
    /\ DictHas(RecordAt(S).keywords, K)
    /\ v \in DictGet(RecordAt(S).keywords, K).vals

\* Only the file of rank k gives K in the section, and it gives value v
OnlyAt(S, dir, section, K, k, v) ==
    /\ SayingRanks(S, dir, section, K) = {k}
    /\ v \in SaidAt(S, dir, section, K, k).vals

\* C10: when, of two option files of a shader, one lists value v of K under
\* addKeywords and the other under delKeywords (and no file gives K under
\* keywords), the more specific file decides: v is in the final table when
\* the more specific file adds it, and is not when it deletes it.
C10_MoreSpecificDecides ==
    Generated =>
        \A S \in Originals(call.path) :
            \A lo, hi \in 0..Len(S) :
                (lo < hi /\ SayingRanks(S, call.path, "keywords", kwSurfaceparm) = {}) =>
                    /\ (/\ OnlyAt(S, call.path, "delKeywords", kwSurfaceparm, lo, kwX)
                        /\ OnlyAt(S, call.path, "addKeywords", kwSurfaceparm, hi, kwX))
                       => exc = NoExc /\ InFinal(S, kwSurfaceparm, kwX)
                    /\ (/\ OnlyAt(S, call.path, "addKeywords", kwSurfaceparm, lo, kwX)
                        /\ OnlyAt(S, call.path, "delKeywords", kwSurfaceparm, hi, kwX))
                       => exc = NoExc /\ ~InFinal(S, kwSurfaceparm, kwX)

-----------------------------------------------------------------------------
(* Malformed values: a directory with shader a and, maybe, shader b, whose  *)
(* directory options file and a.sloth each are absent or hold one numeric   *)
(* or boolean option, well-formed or not, maybe followed by a renderer.     *)

txtX == <<"x">>

\* Options whose value does not convert
BadItems ==
    {[key |-> k, val |-> Value(txtX)] :
        k \in {"colorBlendExp", "alphaTest", "heightNormalsMod", "editorOpacity",
               "predefLights", "addPredefLights", "addCustomLights", "alphaShadows"}}
    \cup {[key |-> "customLights", val |-> Value(<<"1", " ", "x">>)]}

\* Options whose value converts
GoodItems ==
    {[key |-> "editorOpacity", val |-> Value(<<"0", ".", "5">>)],
     [key |-> "predefLights", val |-> Value(<<"1">>)]}

NumConfigs ==
    {[status |-> "ok", sections |-> <<[name |-> "options", items |-> <<it>> \o tail]>>] :
        it \in BadItems \cup GoodItems,
        tail \in {<<>>, <<[key |-> "renderer", val |-> Value(rDaemon)]>>}}

NumDirs ==
    {[relpath |-> <<"t", "/", "x">>,
      files   |-> <<ImageFile(<<"a">> \o suffixes.diffuse \o extTga, PlainImage)>>
                  \o db \o o \o oa] :
        db \in {<<ImageFile(<<"b">> \o suffixes.diffuse \o extTga, PlainImage)>>, <<>>},
        o  \in Optional(defaultSlothFile, NumConfigs),
        oa \in Optional(<<"a">> \o slothFileExt, NumConfigs)}

NumGenerate ==
    /\ ngen = 0
    /\ \E dir \in NumDirs :
         \E order \in Orderings(Scan(dir).mapsbytype.diffuse) :
            GenerateSet(dir, None, None, order)

NextNum == NumGenerate

SpecNum == Init /\ [][NextNum]_vars

\* The [options] items of a directory's file, none if the file is not there
OptionItems(dir, filename) ==
    IF ~InListing(dir, filename) THEN {}
    ELSE UNION {{it \in Range(sec.items) : sec.name = "options"} :
                  sec \in Range(FileNamed(dir, filename).cfg.sections)}

\* The option files of a directory that apply to shader S
FilesFor(S, dir) ==
    {f \in {defaultSlothFile} \cup {SubSeq(S, 1, k) \o slothFileExt : k \in 1..Len(S)} :
        InListing(dir, f)}

\* The value of the item is no number and no boolean
Malformed(it) == Contains(it.val.s, txtX)

\* C11: when an option file of the directory holds a malformed numeric or
\* boolean value, generateSet still returns normally, every shader of the
\* directory is generated, the keys that follow in the file are applied (the
\* renderer it names is the shader's renderer), and a field that only a
\* malformed value names keeps the generator's default.
C11_MalformedTolerated ==
    (Generated /\ \E f \in Range(call.path.files) :
                     \E it \in OptionItems(call.path, f.name) : Malformed(it))
    => /\ exc = NoExc
       /\ \A S \in Originals(call.path) :
             /\ S \in Keys
             /\ (\E f \in FilesFor(S, call.path) :
                    \E it \in OptionItems(call.path, f) : it.key = "renderer")
                => heap[RecordAt(S).options].renderer = rDaemon
             /\ (\A f \in FilesFor(S, call.path) :
                    \A it \in OptionItems(call.path, f) :
                        it.key = "editorOpacity" => Malformed(it))
                => heap[RecordAt(S).options].editorOpacity = InitOptions.editorOpacity

-----------------------------------------------------------------------------
(* Adding light colors and intensities to the generator's own bundle, on a  *)
(* generator constructed quiet or verbose.                                  *)

\* ShaderGenerator(verbosity)
InitVerbose ==
    /\ sets = <<>>
    /\ heap = <<InitOptions>>
    /\ header = <<>>
    /\ verbosity \in {0, 1}
    /\ stderr = <<>>
    /\ call = NoCall
    /\ ret = RetNone
    /\ exc = NoExc
    /\ ngen = 0

\* What a call on the generator's own bundle leaves
OnSelf(op, arg, r) ==
    /\ heap' = [heap EXCEPT ![SelfRef] = r.b]
    /\ stderr' = stderr \o Printed(r.log, verbosity)
    /\ exc' = r.exc
    /\ call' = [op |-> op, path |-> None, setname |-> None, shadername |-> None, arg |-> arg]
    /\ ret' = RetNone
    /\ UNCHANGED <<sets, header, verbosity, ngen>>

\* addLightColor(name, color)
AddLightColor(name, color) ==
    /\ exc = NoExc
    /\ OnSelf("addLightColor", <<name, color>>, addLightColor(heap[SelfRef], name, color))

\* addCustomLightIntensity(intensity)
AddCustomLightIntensity(intensity) ==
    /\ exc = NoExc
    /\ OnSelf("addCustomLightIntensity", intensity,
              addLightIntensity(heap[SelfRef], intensity, TRUE))

\* addPredefLightIntensity(intensity)
AddPredefLightIntensity(intensity) ==
    /\ exc = NoExc
    /\ OnSelf("addPredefLightIntensity", intensity,
              addLightIntensity(heap[SelfRef], intensity, FALSE))

AddColorArgs == {<<"f", "f", "0", "0", "0", "0">>, <<"0", "0", "f", "f", "0", "0">>, <<"r", "e", "d">>}

AddColor ==
    /\ Len(stderr) < MaxStderr
    /\ \E color \in AddColorArgs : AddLightColor(<<"r">>, color)

CustomArgs == {-1, 0, 10000, 10500}

PredefArgs == {9999, 10000, 10500}

AddCustom ==
    /\ Len(stderr) < MaxStderr
    /\ \E intensity \in CustomArgs : AddCustomLightIntensity(intensity)

AddPredef ==
    /\ Len(stderr) < MaxStderr
    /\ \E intensity \in PredefArgs : AddPredefLightIntensity(intensity)

NextAdd == AddColor \/ AddCustom \/ AddPredef

SpecAdd == InitVerbose /\ [][NextAdd]_vars

\* A name of the collection has another value after the step
Overwritten(coll) ==
    \E i \in DOMAIN heap[SelfRef][coll] :
        /\ DictHas(heap'[SelfRef][coll], heap[SelfRef][coll][i].k)
        /\ DictGet(heap'[SelfRef][coll], heap[SelfRef][coll][i].k) # heap[SelfRef][coll][i].v

\* C12: on a verbose generator, every add call that replaces the value stored
\* under a name by a different one (a light color, or a light intensity whose
\* name is that of another intensity) prints a message.
C12_OverwriteReported ==
    [][(verbosity >= 1 /\ \E coll \in {"lightColors", "customLights", "predefLights"} :
                             Overwritten(coll))
       => Len(stderr') > Len(stderr)]_vars

-----------------------------------------------------------------------------
(* Requests for sets and shaders that are not there, among the calls of     *)
(* SpecEmit.                                                                *)

\* The sets a getShader(setname, ...) call asks for
Requested(setname) ==
    {i \in DOMAIN sets : setname = None \/ sets[i].k = setname}

\* C13: a getShader call that names a set that is not known, or a shader
\* that is in none of the sets it asks for, prints an error and returns no
\* content.
C13_UnknownReported ==
    [][(/\ call'.op = "getShader"
        /\ \/ call'.setname # None /\ ~DictHas(sets, call'.setname)
           \/ /\ call'.shadername # None
              /\ \A i \in Requested(call'.setname) : ~DictHas(sets[i].v, call'.shadername))
       => /\ Len(stderr') = Len(stderr) + 1
          /\ stderr'[Len(stderr')].lvl = 0
          /\ ret' = RetNone \/ ret'.content = <<>>]_vars

\* The name the intensity i >= 0 is to be stored under
BucketName(i) ==
    IF i = 0 THEN <<"n", "o", "r", "a", "d">>
    ELSE IF i >= 10000 THEN IntToStr(i \div 1000) \o <<"k">>
    ELSE IntToStr(i)

\* The collection has the entry name -> i after the step and is otherwise
\* as it was
StoredUnder(coll, name, i) ==
    /\ DictHas(heap'[SelfRef][coll], name)
    /\ DictGet(heap'[SelfRef][coll], name) = i
    /\ DictKeys(heap'[SelfRef][coll]) = DictKeys(heap[SelfRef][coll]) \cup {name}
    /\ \A k \in DictKeys(heap[SelfRef][coll]) \ {name} :
          DictGet(heap'[SelfRef][coll], k) = DictGet(heap[SelfRef][coll], k)

\* The collection an add call stores into
CollOf(op) == IF op = "addCustomLightIntensity" THEN "customLights" ELSE "predefLights"

\* C14: an add call with intensity i leaves the collection unchanged when
\* i < 0, and else stores the value i under "norad" when i = 0, under
\* floor(i/1000) followed by "k" when i >= 10000, and under the decimal string
\* of i otherwise, leaving the other entries as they were.
C14_IntensityBuckets ==
    [][call'.op \in {"addCustomLightIntensity", "addPredefLightIntensity"}
       => IF call'.arg < 0
          THEN heap'[SelfRef][CollOf(call'.op)] = heap[SelfRef][CollOf(call'.op)]
          ELSE StoredUnder(CollOf(call'.op), BucketName(call'.arg), call'.arg)]_vars

\* Intensities 0 and 10500 are stored as custom, 9999 as predefined, and a
\* negative one has just been refused
C14_Witness ==
    /\ call.op = "addCustomLightIntensity" /\ call.arg = -1
    /\ DictHas(heap[SelfRef].customLights, <<"n", "o", "r", "a", "d">>)
    /\ DictHas(heap[SelfRef].customLights, <<"1", "0", "k">>)
    /\ DictGet(heap[SelfRef].customLights, <<"1", "0", "k">>) = 10500
    /\ DictHas(heap[SelfRef].predefLights, <<"9", "9", "9", "9">>)

-----------------------------------------------------------------------------
(* Alpha: a directory with shader a whose diffuse map is an image of one of *)
(* several kinds, and whose directory options file and a.sloth each are     *)
(* absent or set the alpha test, by name or by fraction, validly or not;    *)
(* the set is generated and then emitted.                                   *)

\* RGBA with an alpha channel that is neither opaque nor binary
SoftAlphaImage == [AlphaImage EXCEPT !.alphaMin = 100, !.alphaBin = FALSE]

\* RGBA with an alpha channel that is opaque everywhere
OpaqueAlphaImage == [AlphaImage EXCEPT !.alphaMin = 255, !.alphaBin = TRUE]

\* Grayscale with a binary alpha channel
GrayAlphaImage == [AlphaImage EXCEPT !.mode = "LA", !.colors = "gray"]

\* Palette mode, without and with a transparency entry; the last band of a
\* palette image is its index band
PaletteImage == [PlainImage EXCEPT !.mode = "P", !.alphaMin = 0]

PaletteClearImage == [PaletteImage EXCEPT !.transparency = TRUE]

DiffuseImages ==
    {PlainImage, AlphaImage, SoftAlphaImage, OpaqueAlphaImage, GrayAlphaImage,
     PaletteImage, PaletteClearImage}

txtGE128 == <<"G", "E", "1", "2", "8">>

AlphaConfigs ==
    {OneOption("alphaFunc", f) : f \in {<<"G", "T", "0">>, txtGE128, <<"L", "T", "1", "2", "8">>,
                                        txtX}}
    \cup {OneOption("alphaTest", f) : f \in {<<"0">>, <<"0", ".", "5">>, <<"1">>, <<"2">>}}

AlphaDirs ==
    {[relpath |-> <<"t", "/", "x">>,
      files   |-> <<ImageFile(<<"a">> \o suffixes.diffuse \o extTga, img)>> \o o \o oa] :
        img \in DiffuseImages,
        o   \in Optional(defaultSlothFile, AlphaConfigs),
        oa  \in Optional(<<"a">> \o slothFileExt, AlphaConfigs)}

AlphaGenerate ==
    /\ ngen = 0
    /\ \E dir \in AlphaDirs :
         \E order \in Orderings(Scan(dir).mapsbytype.diffuse) :
            GenerateSet(dir, None, None, order)

AlphaGetShader ==
    /\ call.op = "generateSet"
    /\ GetShader(None, None)

NextAlpha == AlphaGenerate \/ AlphaGetShader

SpecAlpha == Init /\ [][NextAlpha]_vars

\* getShader has returned content
Emitted == call.op = "getShader" /\ ~ret.none

\* The returned content has the line
Uses(line) == \E i \in DOMAIN ret.content : ret.content[i] = line

ImpliedLine == Line("\t\talphaFunc GE128", <<>>)

BlendLine == Line("\t\tblend     blend", <<>>)

\* The line of a configured alpha test
ConfiguredLine(test) ==
    IF test.kind = "str" THEN Line("\t\talphaFunc ", test.s)
    ELSE Line("\t\talphaTest ", Fmt2(test.f))

\* C15: in the emitted block of a shader whose diffuse map has alpha, a
\* configured alpha test (a named test or a fraction in [0,1]) appears as
\* configured, without the cutoff implied by binary alpha and without
\* blending; with no test configured the implied cutoff appears when the
\* alpha is binary, and blending otherwise.
C15_ConfiguredTestWins ==
    Emitted =>
        \A x \in Records :
            heap[x.rec.meta].diffuseAlpha =>
                IF heap[x.rec.options].alphaTest.kind # "none"
                THEN /\ Uses(ConfiguredLine(heap[x.rec.options].alphaTest))
                     /\ ~Uses(ImpliedLine)
                     /\ ~Uses(BlendLine)
                ELSE IF heap[x.rec.meta].diffuseAlphaBin
                THEN Uses(ImpliedLine) /\ ~Uses(BlendLine)
                ELSE Uses(BlendLine) /\ ~Uses(ImpliedLine)

\* The alpha test item of a directory's file, for a file that has one
AlphaItem(dir, filename) ==
    CHOOSE it \in OptionItems(dir, filename) : it.key \in {"alphaFunc", "alphaTest"}

HasAlphaItem(dir, filename) ==
    \E it \in OptionItems(dir, filename) : it.key \in {"alphaFunc", "alphaTest"}

\* The item names one of the tests, or a fraction in [0,1]
ValidAlpha(it) ==
    IF it.key = "alphaFunc" THEN it.val.s \in {<<"G", "T", "0">>, txtGE128, <<"L", "T", "1", "2", "8">>}
    ELSE it.val.s \in {<<"0">>, <<"0", ".", "5">>, <<"1">>}

\* The test a valid item names
AlphaOf(it) ==
    IF it.key = "alphaFunc" THEN AlphaFunc(it.val.s)
    ELSE AlphaFrac(CASE it.val.s = <<"0">> -> 0 [] it.val.s = <<"0", ".", "5">> -> 50
                     [] OTHER -> 100)

\* The field after the file, when invalid values leave it as it was
AfterFile(prior, dir, filename) ==
    IF HasAlphaItem(dir, filename) /\ ValidAlpha(AlphaItem(dir, filename))
    THEN AlphaOf(AlphaItem(dir, filename))
    ELSE prior

AlphaDomain ==
    {NoAlphaTest} \cup {AlphaFunc(f) : f \in alphaFuncs} \cup {AlphaFrac(f) : f \in 0..100}

\* C16: an alpha test that is no named test and no fraction in [0,1], set by
\* an options file, is reported as an error and leaves the field as it was
\* before the file; and the field of every bundle is always absent, a named
\* test or a fraction in [0,1].
C16_InvalidAlphaKeepsPrior ==
    /\ \A i \in DOMAIN heap : heap[i] # <<>> /\ "alphaTest" \in DOMAIN heap[i]
                              => heap[i].alphaTest \in AlphaDomain
    /\ (Generated /\ exc = NoExc) =>
          \A S \in Originals(call.path) :
             /\ heap[RecordAt(S).options].alphaTest
                   = AfterFile(AfterFile(NoAlphaTest, call.path, defaultSlothFile),
                               call.path, S \o slothFileExt)
             /\ (\E f \in FilesFor(S, call.path) :
                    HasAlphaItem(call.path, f) /\ ~ValidAlpha(AlphaItem(call.path, f)))
                => \E i \in DOMAIN stderr : stderr[i].lvl = 0

\* C17: the diffuse-alpha fact of a shader is true exactly when its diffuse
\* image is RGBA or LA with an alpha channel that is not opaque everywhere,
\* or is a palette image with a transparency entry.
C17_DiffuseAlphaFact ==
    \A x \in Records :
        "diffuseAlpha" \in DOMAIN heap[x.rec.meta] =>
            heap[x.rec.meta].diffuseAlpha
                = LET img == FileNamed(x.rec.abspath, x.rec.diffuse \o x.rec.ext.diffuse).img
                  IN  \/ img.mode \in {"RGBA", "LA"} /\ img.alphaMin # 255
                      \/ img.mode = "P" /\ img.transparency

-----------------------------------------------------------------------------
(* Merging: two directories generated one after the other, into sets named  *)
(* after them or into one set the caller names; each may hold shader a,     *)
(* with or without an addition map, shader b, and a directory options file  *)
(* that configures lights.                                                  *)

ColorConfig ==
    [status   |-> "ok",
     sections |-> <<[name  |-> "options",
                     items |-> <<[key |-> "colors", val |-> Value(txtRed)],
                                 [key |-> "customLights", val |-> Value(<<"1">>)]>>]>>]

MergeDirs ==
    {[relpath |-> rp,
      files   |-> da \o aa \o db \o o] :
        rp \in {<<"t", "/", "x">>, <<"t", "/", "y">>},
        da \in {<<>>, <<ImageFile(<<"a">> \o suffixes.diffuse \o extTga, PlainImage)>>},
        aa \in {<<>>,
                <<ImageFile(<<"a">> \o suffixes.addition \o extTga, PlainImage)>>,
                <<ImageFile(<<"a">> \o suffixes.addition \o extTga, GrayImage)>>},
        db \in {<<>>, <<ImageFile(<<"b">> \o suffixes.diffuse \o extTga, PlainImage)>>},
        o  \in Optional(defaultSlothFile, {PredefConfig, ColorConfig})}

MergeGenerate ==
    /\ ngen < MaxGen
    /\ \E dir \in MergeDirs, setname \in {None, <<"t", "/", "m">>} :
         \E order \in Orderings(Scan(dir).mapsbytype.diffuse) :
            GenerateSet(dir, setname, None, order)

NextMerge == MergeGenerate

SpecMerge == Init /\ [][NextMerge]_vars

\* s is the beginning of t
IsPrefix(s, t) == Len(s) <= Len(t) /\ SubSeq(t, 1, Len(s)) = s

\* The record entry is in the set after the step as it was before it: same
\* name, same maps, same options and same metadata
KeptAsItWas(setname, e) ==
    /\ DictHas(DictGet(sets', setname), e.k)
    /\ DictGet(DictGet(sets', setname), e.k) = e.v
    /\ heap'[e.v.options] = heap[e.v.options]
    /\ heap'[e.v.meta] = heap[e.v.meta]

\* C18: a generateSet that merges a second directory into a set that exists
\* leaves every record of the set unchanged whose name does not begin with
\* the name of a shader of the second directory; light variants that are in
\* the set are not expanded or renamed again.
C18_MergeKeepsRecords ==
    [][(/\ call'.op = "generateSet"
        /\ exc' = NoExc
        /\ DictHas(sets, SetName(call'.path.relpath, call'.setname, None)))
       => \A e \in Range(DictGet(sets, SetName(call'.path.relpath, call'.setname, None))) :
             (\A S \in Originals(call'.path) : ~IsPrefix(S, e.k))
             => KeptAsItWas(SetName(call'.path.relpath, call'.setname, None), e)]_vars

-----------------------------------------------------------------------------
(* Collisions of variant names, among the directories of SpecLight.         *)

\* The sum, over the shaders, of the number of records each gives rise to
RECURSIVE VariantSum(_, _)
VariantSum(Ss, dir) ==
    IF Ss = {} THEN 0
    ELSE LET S == CHOOSE T \in Ss : TRUE
         IN  Cardinality(GeneratedBy(S, dir)) + VariantSum(Ss \ {S}, dir)

\* C19: after expansion every name generated for a shader holds a record
\* that came from that shader, none replaced by a record of another shader,
\* and the set has as many records as the shaders' variant counts add up to.
C19_NoVariantOverwritten ==
    Expanded =>
        /\ \A S \in Originals(call.path) : GeneratedBy(S, call.path) \subseteq KeysFrom(S)
        /\ Cardinality(Keys) = VariantSum(Originals(call.path), call.path)

-----------------------------------------------------------------------------
(* Stages: a directory with shader a, its diffuse map with or without       *)
(* alpha, maybe a normal map and an addition map, and a directory options   *)
(* file that sets the renderer and maybe lights and an alpha test; the set  *)
(* is generated and then emitted.                                           *)

txtWhite == <<"w", ":", "f", "f", "f", "f", "f", "f">>

StageLights ==
    {<<>>,
     <<[key |-> "colors", val |-> Value(txtRed)],
       [key |-> "customLights", val |-> Value(<<"1">>)]>>,
     <<[key |-> "colors", val |-> Value(txtWhite)],
       [key |-> "customLights", val |-> Value(<<"1">>)]>>,
     <<[key |-> "predefLights", val |-> Value(<<"1">>)]>>}

StageConfigs ==
    {[status   |-> "ok",
      sections |-> <<[name  |-> "options",
                      items |-> <<[key |-> "renderer", val |-> Value(r)]>> \o l \o t]>>] :
        r \in supportedRenderers,
        l \in StageLights,
        t \in {<<>>, <<[key |-> "alphaFunc", val |-> Value(<<"G", "T", "0">>)]>>}}

StageDirs ==
    {[relpath |-> <<"t", "/", "x">>,
      files   |-> <<ImageFile(<<"a">> \o suffixes.diffuse \o extTga, img)>> \o an \o aa
                  \o <<OptionFile(defaultSlothFile, o)>>] :
        img \in {PlainImage, AlphaImage, SoftAlphaImage},
        an  \in {<<>>, <<ImageFile(<<"a">> \o suffixes.normal \o extTga, PlainImage)>>},
        aa  \in {<<>>,
                 <<ImageFile(<<"a">> \o suffixes.addition \o extTga, PlainImage)>>,
                 <<ImageFile(<<"a">> \o suffixes.addition \o extTga, GrayImage)>>},
        o   \in StageConfigs}

StageGenerate ==
    /\ ngen = 0
    /\ \E dir \in StageDirs :
         \E order \in Orderings(Scan(dir).mapsbytype.diffuse) :
            GenerateSet(dir, None, None, order)

StageGetShader ==
    /\ call.op = "generateSet"
    /\ GetShader(None, None)

NextStage == StageGenerate \/ StageGetShader

SpecStage == Init /\ [][NextStage]_vars

\* Where the block of record x begins and ends in the returned content
BlockStart(x) ==
    CHOOSE i \in DOMAIN ret.content :
        ret.content[i] = Line("", x.setname \o <<"/">> \o x.key)

BlockEnd(x) ==
    CHOOSE j \in DOMAIN ret.content :
        /\ j > BlockStart(x) /\ ret.content[j] = Line("}", <<>>)
        /\ \A k \in (BlockStart(x) + 1)..(j - 1) : ret.content[k] # Line("}", <<>>)

DirectiveTexts == {"\t\talphaFunc ", "\t\talphaTest ", "\t\talphaFunc GE128", "\t\tblend     blend"}

\* The lines of x's block that are alpha directives
Directives(x) ==
    {i \in BlockStart(x)..BlockEnd(x) : ret.content[i].text \in DirectiveTexts}

StageOpens == Line("\t{", <<>>)

StageCloses == Line("\t}", <<>>)

\* Line i is inside a stage of x's block, one that holds the diffuse map
InDiffuseStage(x, i) ==
    \E j \in BlockStart(x)..(i - 1), c \in (i + 1)..BlockEnd(x) :
        /\ ret.content[j] = StageOpens
        /\ ret.content[c] = StageCloses
        /\ \A k \in (j + 1)..(c - 1) : ret.content[k] \notin {StageOpens, StageCloses}
        /\ \E m \in (j + 1)..(c - 1) :
              /\ ret.content[m].text \in {"\t\tmap       ", "\t\tdiffuseMap      "}
              /\ ret.content[m].arg = x.rec.relpath \o <<"/">> \o x.rec.diffuse

\* C20: the emitted block of every shader whose diffuse map has alpha has
\* exactly one alpha directive (alphaFunc, alphaTest or blend), inside the
\* stage that holds the diffuse map, for every renderer, with or without an
\* addition map and a light color.
C20_OneAlphaDirective ==
    Emitted =>
        \A x \in Records :
            heap[x.rec.meta].diffuseAlpha =>
                /\ Cardinality(Directives(x)) = 1
                /\ \A i \in Directives(x) : InDiffuseStage(x, i)

-----------------------------------------------------------------------------
(* Stage braces: a directory with shader a and any of its other maps, under *)
(* each renderer, with and without lights and an alpha test.                *)

BraceExtras ==
    {<<>>,
     <<ImageFile(<<"a">> \o suffixes.height \o extTga, PlainImage)>>,
     <<ImageFile(<<"a">> \o suffixes.normalheight \o extTga, PlainImage)>>,
     <<ImageFile(<<"a">> \o suffixes.specular \o extTga, PlainImage),
       ImageFile(<<"a">> \o suffixes.physical \o extTga, PlainImage)>>}

BraceDirs ==
    {[relpath |-> <<"t", "/", "x">>,
      files   |-> <<ImageFile(<<"a">> \o suffixes.diffuse \o extTga, img)>> \o an \o ex \o aa
                  \o <<OptionFile(defaultSlothFile, o)>>] :
        img \in {PlainImage, AlphaImage, SoftAlphaImage},
        an  \in {<<>>, <<ImageFile(<<"a">> \o suffixes.normal \o extTga, PlainImage)>>},
        ex  \in BraceExtras,
        aa  \in {<<>>,
                 <<ImageFile(<<"a">> \o suffixes.addition \o extTga, PlainImage)>>,
                 <<ImageFile(<<"a">> \o suffixes.addition \o extTga, GrayImage)>>},
        o   \in StageConfigs}

BraceGenerate ==
    /\ ngen = 0
    /\ \E dir \in BraceDirs :
         \E order \in Orderings(Scan(dir).mapsbytype.diffuse) :
            GenerateSet(dir, None, None, order)

BraceGetShader ==
    /\ call.op = "generateSet"
    /\ GetShader(None, None)

NextBrace == BraceGenerate \/ BraceGetShader

SpecBrace == Init /\ [][NextBrace]_vars

\* How many stages are open after line i of x's block
RECURSIVE Depth(_, _)
Depth(x, i) ==
    IF i < BlockStart(x) THEN 0
    ELSE Depth(x, i - 1)
         + (IF ret.content[i] = StageOpens THEN 1 ELSE 0)
         - (IF ret.content[i] = StageCloses THEN 1 ELSE 0)

\* The value of in_stage after the blocks of the first k names of a set
FlagAfter(setname, shaders, k) ==
    ShaderBlocks([content |-> Banner(setname), in_stage |-> FALSE], setname, shaders,
                 SubSeq(SortedStrs(DictKeys(shaders)), 1, k), heap).in_stage

\* C21: in every emitted block the stage braces are balanced: a stage is
\* never opened inside another, never closed when none is open, every stage
\* is closed before the block's closing brace, and in_stage is false when
\* the next shader's block begins.
C21_StagesBalanced ==
    Emitted =>
        /\ \A x \in Records :
              /\ \A i \in BlockStart(x)..BlockEnd(x) : Depth(x, i) \in {0, 1}
              /\ Depth(x, BlockEnd(x)) = 0
        /\ \A s \in DOMAIN sets : \A k \in 0..Len(sets[s].v) :
              ~FlagAfter(sets[s].k, sets[s].v, k)

\* Reached: a daemon block with a stage of several maps closed before the
\* addition stage of a colored light, after another block of the same set
C21_Witness ==
    /\ Emitted
    /\ \E x \in Records :
          /\ heap[x.rec.options].renderer = <<"d", "a", "e", "m", "o", "n">>
          /\ x.rec.normal # None /\ x.rec.addition # None
          /\ "lightColor" \in DOMAIN heap[x.rec.meta]
          /\ heap[x.rec.meta].diffuseAlpha
          /\ Cardinality({i \in BlockStart(x)..BlockEnd(x) : ret.content[i] = StageOpens}) = 2
          /\ \E y \in Records : BlockStart(y) < BlockStart(x)

====
